---------------------------- MODULE Spec2Model ----------------------------
(***************************************************************************)
(* Temple Finder: the GET /api/temples handler of the Express server and   *)
(* the temples table it reads.                                             *)
(*                                                                         *)
(* Numbers.  JavaScript numbers are modelled in fixed point: the integer n *)
(* stands for n / Scale, so latitudes and longitudes are in 1e-4 degree    *)
(* and radii and distances in 1e-4 km.  NaN and the two infinities are     *)
(* values of their own.                                                    *)
(* Strings are TLA+ strings, read character by character with SubSeq.      *)
(***************************************************************************)
EXTENDS Integers, Sequences, FiniteSets, TLC

VARIABLES
    temples, request, response,     \* the server: table, request, response
    points, measured,               \* getDistance: its arguments, its result
    displayed, searchQuery, selectedTypes, userLocation, isLoading,
    fetches, geolocation,           \* the App component and its requests
    messages, input, isTyping, chat, \* the ChatDrawer and its request
    isChatOpen, discarded           \* the drawer on screen, those closed

serverVars == <<temples, request, response>>

distanceVars == <<points, measured>>

appVars ==
    <<displayed, searchQuery, selectedTypes, userLocation, isLoading,
      fetches, geolocation>>

chatVars == <<messages, input, isTyping, chat, isChatOpen, discarded>>

vars == <<serverVars, distanceVars, appVars, chatVars>>

\* Fixed-point unit of every number of the model: n stands for n / Scale.
Scale == 10 * 1000

(***************************************************************************)
(* JavaScript and SQLite values.                                           *)
(***************************************************************************)
Num(n) == [k |-> "number", v |-> n]

\* A double that lies between two points of the fixed-point grid:
\* n / Scale + m * 1e-200.
NumBelow(n, m) == [k |-> "number", v |-> n, below |-> m]

\* The number is a point of the fixed-point grid.
OnGrid(x) == "below" \notin DOMAIN x

NaN == [k |-> "NaN"]

\* Infinity and -Infinity.
Infinity(neg) == [k |-> "infinity", neg |-> neg]

Str(s) == [k |-> "string", s |-> s]

\* A query parameter that the request does not carry.
Undefined == [k |-> "undefined"]

\* A query parameter that the request carries more than once: express
\* hands the handler the array of its values.
Arr(items) == [k |-> "array", items |-> items]

\* SQL NULL, which better-sqlite3 hands to JavaScript as null.
Null == [k |-> "null"]

\* A finite number.
IsNum(x) == x.k = "number"

IsInfinity(x) == x.k = "infinity"

\* JavaScript truthiness of a query parameter (a string, an array or
\* undefined): `if (city)`, `if (type)`, `lat && lng`.
Truthy(x) ==
    CASE x.k = "string" -> x.s # ""
      [] x.k = "array" -> TRUE
      [] x.k = "number" -> x.v # 0
      [] x.k = "infinity" -> TRUE
      [] OTHER -> FALSE

\* Array.prototype.join
RECURSIVE join(_, _)
join(list, sep) ==
    IF Len(list) = 0 THEN ""
    ELSE IF Len(list) = 1 THEN list[1]
    ELSE list[1] \o sep \o join(Tail(list), sep)

\* String(x) of a query parameter, as `%${city}%` and parseFloat take it:
\* an array prints its items with commas between them.
StringOf(x) ==
    CASE x.k = "string" -> x.s
      [] x.k = "array" -> join(x.items, ",")
      [] OTHER -> x.k

(***************************************************************************)
(* parseFloat: optional leading white space, an optional sign, then the    *)
(* word Infinity or the longest prefix of the form digits [. digits]; NaN  *)
(* when there is neither.  Inputs of the model carry at most four          *)
(* decimals, no exponent and an integer part below 200000; of the white    *)
(* space characters they carry the space, tab, line feed, form feed and    *)
(* carriage return.                                                        *)
(***************************************************************************)
Digits == "0123456789"

CharAt(s, i) == SubSeq(s, i, i)

IsDigit(c) == \E i \in 1..Len(Digits) : CharAt(Digits, i) = c

DigitVal(c) == (CHOOSE i \in 1..Len(Digits) : CharAt(Digits, i) = c) - 1

\* Number of leading characters of s, from position i on, that are digits.
RECURSIVE DigitRun(_, _)
DigitRun(s, i) ==
    IF i <= Len(s) /\ IsDigit(CharAt(s, i)) THEN 1 + DigitRun(s, i + 1) ELSE 0

\* Value of the digits s[i .. i+n-1] read as an integer.
RECURSIVE IntOf(_, _, _)
IntOf(s, i, n) ==
    IF n = 0 THEN 0
    ELSE 10 * IntOf(s, i, n - 1) + DigitVal(CharAt(s, i + n - 1))

\* Value of the digits s[i .. i+n-1] read as a fraction, in units of
\* 1 / unit (unit a power of ten); digits beyond the unit are dropped.
RECURSIVE FracOf(_, _, _, _)
FracOf(s, i, n, unit) ==
    IF n = 0 \/ unit = 1 THEN 0
    ELSE DigitVal(CharAt(s, i)) * (unit \div 10)
         + FracOf(s, i + 1, n - 1, unit \div 10)

\* White space of StrWhiteSpaceChar that a string of the model can hold.
WhiteSpace == " \t\n\f\r"

IsWhiteSpace(c) == \E i \in 1..Len(WhiteSpace) : CharAt(WhiteSpace, i) = c

RECURSIVE SkipBlanks(_, _)
SkipBlanks(s, i) ==
    IF i <= Len(s) /\ IsWhiteSpace(CharAt(s, i)) THEN SkipBlanks(s, i + 1)
    ELSE i

\* String.prototype.trim: white space off both ends.
RECURSIVE trimStart(_)
trimStart(s) ==
    IF Len(s) > 0 /\ IsWhiteSpace(CharAt(s, 1)) THEN trimStart(Tail(s)) ELSE s

RECURSIVE trimEnd(_)
trimEnd(s) ==
    IF Len(s) > 0 /\ IsWhiteSpace(CharAt(s, Len(s)))
    THEN trimEnd(SubSeq(s, 1, Len(s) - 1))
    ELSE s

trim(s) == trimEnd(trimStart(s))

\* s has the word w at position i.
StartsWithAt(s, w, i) ==
    i + Len(w) - 1 <= Len(s) /\ SubSeq(s, i, i + Len(w) - 1) = w

ParseFloatStr(s) ==
    LET b == SkipBlanks(s, 1)
        signed == b <= Len(s) /\ CharAt(s, b) \in {"-", "+"}
        neg == signed /\ CharAt(s, b) = "-"
        i == IF signed THEN b + 1 ELSE b
        n == DigitRun(s, i)
        dot == i + n <= Len(s) /\ CharAt(s, i + n) = "."
        m == IF dot THEN DigitRun(s, i + n + 1) ELSE 0
        mag == IntOf(s, i, n) * Scale + FracOf(s, i + n + 1, m, Scale)
    IN  IF StartsWithAt(s, "Infinity", i) THEN Infinity(neg)
        ELSE IF n = 0 /\ m = 0 THEN NaN
        ELSE Num(IF neg THEN 0 - mag ELSE mag)

\* The number a string spells: white space off both ends, then nothing (0),
\* or an optional sign and the word Infinity or digits [. digits] up to the
\* end of the string; NaN for any other text.  Strings of the model carry
\* no exponent and no 0x, 0o or 0b literal.
StringToNumber(s) ==
    LET t == trim(s)
        signed == Len(t) > 0 /\ CharAt(t, 1) \in {"-", "+"}
        neg == signed /\ CharAt(t, 1) = "-"
        i == IF signed THEN 2 ELSE 1
        n == DigitRun(t, i)
        dot == i + n <= Len(t) /\ CharAt(t, i + n) = "."
        m == IF dot THEN DigitRun(t, i + n + 1) ELSE 0
        end == i + n + (IF dot THEN 1 + m ELSE 0)
        mag == IntOf(t, i, n) * Scale + FracOf(t, i + n + 1, m, Scale)
    IN  IF t = "" THEN Num(0)
        ELSE IF SubSeq(t, i, Len(t)) = "Infinity" THEN Infinity(neg)
        ELSE IF (n = 0 /\ m = 0) \/ end <= Len(t) THEN NaN
        ELSE Num(IF neg THEN 0 - mag ELSE mag)

\* ToNumber of an operand of `-` and `*`: null is 0, undefined is NaN, a
\* string is the number it spells.
ToNumber(x) ==
    CASE x.k = "number" -> x
      [] x.k = "infinity" -> x
      [] x.k = "null" -> Num(0)
      [] x.k = "string" -> StringToNumber(x.s)
      [] OTHER -> NaN

\* parseFloat(x): x is first converted to a string (a number prints and
\* parses back to itself, undefined prints as "undefined").
parseFloat(x) ==
    CASE x.k = "string" -> ParseFloatStr(x.s)
      [] x.k = "array" -> ParseFloatStr(StringOf(x))
      [] x.k = "number" -> x
      [] x.k = "infinity" -> x
      [] OTHER -> NaN

(***************************************************************************)
(* String.prototype.split(",") and the SQL operators of the query.         *)
(***************************************************************************)
\* Position of the first sep in s at or after i, or 0.
RECURSIVE IndexOf(_, _, _)
IndexOf(s, sep, i) ==
    IF i > Len(s) THEN 0
    ELSE IF CharAt(s, i) = sep THEN i
    ELSE IndexOf(s, sep, i + 1)

\* split that never cuts: the whole string as the only piece.
splitNever(s, sep) == <<s>>

RECURSIVE split(_, _)
split(s, sep) ==
    LET j == IndexOf(s, sep, 1)
    IN  IF j = 0 THEN <<s>>
        ELSE <<SubSeq(s, 1, j - 1)>> \o split(SubSeq(s, j + 1, Len(s)), sep)

Upper == "ABCDEFGHIJKLMNOPQRSTUVWXYZ"

Lower == "abcdefghijklmnopqrstuvwxyz"

\* SQLite folds the case of the ASCII letters only.
FoldChar(c) ==
    IF \E i \in 1..Len(Upper) : CharAt(Upper, i) = c
    THEN CharAt(Lower, CHOOSE i \in 1..Len(Upper) : CharAt(Upper, i) = c)
    ELSE c

\* SQLite's LIKE: % matches any run of characters, _ any one character,
\* any other character itself up to ASCII case; pattern p from position i
\* against string s from position j.
RECURSIVE LikeFrom(_, _, _, _)
LikeFrom(p, s, i, j) ==
    IF i > Len(p) THEN j > Len(s)
    ELSE IF CharAt(p, i) = "%"
         THEN \E k \in j..(Len(s) + 1) : LikeFrom(p, s, i + 1, k)
    ELSE IF CharAt(p, i) = "_"
         THEN j <= Len(s) /\ LikeFrom(p, s, i + 1, j + 1)
    ELSE j <= Len(s)
         /\ FoldChar(CharAt(p, i)) = FoldChar(CharAt(s, j))
         /\ LikeFrom(p, s, i + 1, j + 1)

\* `column LIKE pattern` in a WHERE clause: NULL LIKE p is NULL, not true.
Like(column, pattern) ==
    column.k = "string" /\ LikeFrom(pattern, column.s, 1, 1)

\* `type IN (?, ?, ...)`: equality under the BINARY collation.
InList(value, list) == \E i \in 1..Len(list) : list[i] = value

(***************************************************************************)
(* The temples table (src/db.ts).  A row keeps the columns the handler     *)
(* reads; id is the AUTOINCREMENT key, the row's position in the table.    *)
(***************************************************************************)
Row(type, city, lat, lng) ==
    [type |-> type, city |-> city, lat |-> lat, lng |-> lng]

\* The five rows inserted when the table is empty.
sampleTemples ==
    << Row("Hindu", Str("Pune"), Num(185164), Num(738560)),
       Row("Hindu", Str("Pune"), Num(185392), Num(738273)),
       Row("Buddhist", Str("Pune"), Num(185375), Num(738885)),
       Row("Jain", Str("Pune"), Num(184529), Num(738554)),
       Row("Sikh", Str("Pune"), Num(185126), Num(738787)) >>

\* Rows a database file may hold from earlier runs: a temple in another
\* city, one whose city and lat are NULL and whose lng is the empty text
\* (a REAL column keeps a text that spells no number as it is), and a
\* second entry of the Katraj temple written in lower case.
StoredRows ==
    { Row("Hindu", Str("Mumbai"), Num(190760), Num(728777)),
      Row("Sikh", Null, Null, Str("")),
      Row("jain", Str("pune"), Num(184529), Num(738554)) }

\* Largest number of rows in the database file before start-up.
MaxStored == 2

WithIds(rows) == [i \in 1..Len(rows) |-> [id |-> i] @@ rows[i]]

\* Start-up: the table keeps its rows, or gets sampleTemples when empty.
Seed(rows) == IF Len(rows) = 0 THEN sampleTemples ELSE rows

(***************************************************************************)
(* getDistance (haversine, R = 6371 km).  HaversineKm holds the value of   *)
(* the source's float64 expression at the coordinates of the model, in     *)
(* 1e-4 km rounded up, so that d <= r is decided as the code decides it    *)
(* for every radius of at most four decimals, and two table values are     *)
(* equal exactly when the two doubles are.                                 *)
(***************************************************************************)
HaversineKm(lat1, lon1, lat2, lon2) ==
    CASE lat1 = 185204 /\ lon1 = 738567 /\ lat2 = 185164 /\ lon2 = 738560 -> 4509   \* 0.450862 km
    [] lat1 = 185204 /\ lon1 = 738567 /\ lat2 = 185392 /\ lon2 = 738273 -> 37388   \* 3.738703 km
    [] lat1 = 185204 /\ lon1 = 738567 /\ lat2 = 185375 /\ lon2 = 738885 -> 38544   \* 3.854357 km
    [] lat1 = 185204 /\ lon1 = 738567 /\ lat2 = 184529 /\ lon2 = 738554 -> 75070   \* 7.506909 km
    [] lat1 = 185204 /\ lon1 = 738567 /\ lat2 = 185126 /\ lon2 = 738787 -> 24765   \* 2.476493 km
    [] lat1 = 185204 /\ lon1 = 738567 /\ lat2 = 190760 /\ lon2 = 728777 -> 1201524   \* 120.152302 km
    [] lat1 = 185204 /\ lon1 = 738567 /\ lat2 = 0 /\ lon2 = 0 -> 83077930   \* 8307.792972 km
    [] lat1 = 185204 /\ lon1 = 738567 /\ lat2 = 185204 /\ lon2 = 738567 -> 0   \* 0.000000 km
    [] lat1 = 0 /\ lon1 = 0 /\ lat2 = 185164 /\ lon2 = 738560 -> 83076788   \* 8307.678756 km
    [] lat1 = 0 /\ lon1 = 0 /\ lat2 = 185392 /\ lon2 = 738273 -> 83048981   \* 8304.898045 km
    [] lat1 = 0 /\ lon1 = 0 /\ lat2 = 185375 /\ lon2 = 738885 -> 83113056   \* 8311.305597 km
    [] lat1 = 0 /\ lon1 = 0 /\ lat2 = 184529 /\ lon2 = 738554 -> 83069705   \* 8306.970428 km
    [] lat1 = 0 /\ lon1 = 0 /\ lat2 = 185126 /\ lon2 = 738787 -> 83100236   \* 8310.023560 km
    [] lat1 = 0 /\ lon1 = 0 /\ lat2 = 190760 /\ lon2 = 728777 -> 82111356   \* 8211.135566 km
    [] lat1 = 0 /\ lon1 = 0 /\ lat2 = 0 /\ lon2 = 0 -> 0   \* 0.000000 km
    [] lat1 = 0 /\ lon1 = 0 /\ lat2 = 185204 /\ lon2 = 738567 -> 83077930   \* 8307.792972 km
    [] lat1 = 915000 /\ lon1 = 738567 /\ lat2 = 185164 /\ lon2 = 738560 -> 81154061   \* 8115.406048 km
    [] lat1 = 915000 /\ lon1 = 738567 /\ lat2 = 185392 /\ lon2 = 738273 -> 81128708   \* 8112.870782 km
    [] lat1 = 915000 /\ lon1 = 738567 /\ lat2 = 185375 /\ lon2 = 738885 -> 81130599   \* 8113.059810 km
    [] lat1 = 915000 /\ lon1 = 738567 /\ lat2 = 184529 /\ lon2 = 738554 -> 81224670   \* 8122.466926 km
    [] lat1 = 915000 /\ lon1 = 738567 /\ lat2 = 185126 /\ lon2 = 738787 -> 81158286   \* 8115.828577 km
    [] lat1 = 915000 /\ lon1 = 738567 /\ lat2 = 190760 /\ lon2 = 728777 -> 80531573   \* 8053.157233 km
    [] lat1 = 915000 /\ lon1 = 738567 /\ lat2 = 0 /\ lon2 = 0 -> 100539136   \* 10053.913577 km
    [] lat1 = 915000 /\ lon1 = 738567 /\ lat2 = 185204 /\ lon2 = 738567 -> 81149613   \* 8114.961269 km
    [] lat1 = 915000 /\ lon1 = 0 /\ lat2 = 185164 /\ lon2 = 738560 -> 79956589   \* 7995.658816 km
    [] lat1 = 915000 /\ lon1 = 0 /\ lat2 = 185392 /\ lon2 = 738273 -> 79932046   \* 7993.204502 km
    [] lat1 = 915000 /\ lon1 = 0 /\ lat2 = 185375 /\ lon2 = 738885 -> 79932228   \* 7993.222770 km
    [] lat1 = 915000 /\ lon1 = 0 /\ lat2 = 184529 /\ lon2 = 738554 -> 80027189   \* 8002.718898 km
    [] lat1 = 915000 /\ lon1 = 0 /\ lat2 = 185126 /\ lon2 = 738787 -> 79960179   \* 7996.017892 km
    [] lat1 = 915000 /\ lon1 = 0 /\ lat2 = 190760 /\ lon2 = 728777 -> 79361774   \* 7936.177302 km
    [] lat1 = 915000 /\ lon1 = 0 /\ lat2 = 0 /\ lon2 = 0 -> 101743358   \* 10174.335788 km
    [] lat1 = 915000 /\ lon1 = 0 /\ lat2 = 185204 /\ lon2 = 738567 -> 79952123   \* 7995.212240 km
    [] lat1 = 185204 /\ lon1 = 0 /\ lat2 = 185164 /\ lon2 = 738560 -> 77234767   \* 7723.476647 km
    [] lat1 = 185204 /\ lon1 = 0 /\ lat2 = 185392 /\ lon2 = 738273 -> 77199450   \* 7719.944948 km
    [] lat1 = 185204 /\ lon1 = 0 /\ lat2 = 185375 /\ lon2 = 738885 -> 77262647   \* 7726.264640 km
    [] lat1 = 185204 /\ lon1 = 0 /\ lat2 = 184529 /\ lon2 = 738554 -> 77250563   \* 7725.056262 km
    [] lat1 = 185204 /\ lon1 = 0 /\ lat2 = 185126 /\ lon2 = 738787 -> 77259029   \* 7725.902813 km
    [] lat1 = 185204 /\ lon1 = 0 /\ lat2 = 190760 /\ lon2 = 728777 -> 76090030   \* 7609.002956 km
    [] lat1 = 185204 /\ lon1 = 0 /\ lat2 = 0 /\ lon2 = 0 -> 20593746   \* 2059.374519 km
    [] lat1 = 185204 /\ lon1 = 0 /\ lat2 = 185204 /\ lon2 = 738567 -> 77234452   \* 7723.445147 km
    [] lat1 = 0 /\ lon1 = 738567 /\ lat2 = 185164 /\ lon2 = 738560 -> 20589298   \* 2058.929741 km
    [] lat1 = 0 /\ lon1 = 738567 /\ lat2 = 185392 /\ lon2 = 738273 -> 20614675   \* 2061.467485 km
    [] lat1 = 0 /\ lon1 = 738567 /\ lat2 = 185375 /\ lon2 = 738885 -> 20612789   \* 2061.278879 km
    [] lat1 = 0 /\ lon1 = 738567 /\ lat2 = 184529 /\ lon2 = 738554 -> 20518689   \* 2051.868867 km
    [] lat1 = 0 /\ lon1 = 738567 /\ lat2 = 185126 /\ lon2 = 738787 -> 20585087   \* 2058.508602 km
    [] lat1 = 0 /\ lon1 = 738567 /\ lat2 = 190760 /\ lon2 = 728777 -> 21238422   \* 2123.842130 km
    [] lat1 = 0 /\ lon1 = 738567 /\ lat2 = 0 /\ lon2 = 0 -> 82124904   \* 8212.490339 km
    [] lat1 = 0 /\ lon1 = 738567 /\ lat2 = 185204 /\ lon2 = 738567 -> 20593746   \* 2059.374519 km
    [] lat1 = 0 /\ lon1 = 0 /\ lat2 = 0 /\ lon2 = 738567 -> 82124904   \* 8212.49 km
    [] lat1 = 0 /\ lon1 = 0 /\ lat2 = 0 /\ lon2 = 1800000 -> 200150868   \* 20015.1 km
    [] lat1 = 0 /\ lon1 = 0 /\ lat2 = 0 /\ lon2 = -1800000 -> 200150868   \* 20015.1 km
    [] lat1 = 0 /\ lon1 = 0 /\ lat2 = 185204 /\ lon2 = 0 -> 20593746   \* 2059.37 km
    [] lat1 = 0 /\ lon1 = 0 /\ lat2 = 185204 /\ lon2 = 1800000 -> 179557123   \* 17955.7 km
    [] lat1 = 0 /\ lon1 = 0 /\ lat2 = 185204 /\ lon2 = -1800000 -> 179557123   \* 17955.7 km
    [] lat1 = 0 /\ lon1 = 0 /\ lat2 = 900000 /\ lon2 = 0 -> 100075434   \* 10007.5 km
    [] lat1 = 0 /\ lon1 = 0 /\ lat2 = 900000 /\ lon2 = 738567 -> 100075434   \* 10007.5 km
    [] lat1 = 0 /\ lon1 = 0 /\ lat2 = 900000 /\ lon2 = 1800000 -> 100075434   \* 10007.5 km
    [] lat1 = 0 /\ lon1 = 0 /\ lat2 = 900000 /\ lon2 = -1800000 -> 100075434   \* 10007.5 km
    [] lat1 = 0 /\ lon1 = 0 /\ lat2 = -900000 /\ lon2 = 0 -> 100075434   \* 10007.5 km
    [] lat1 = 0 /\ lon1 = 0 /\ lat2 = -900000 /\ lon2 = 738567 -> 100075434   \* 10007.5 km
    [] lat1 = 0 /\ lon1 = 0 /\ lat2 = -900000 /\ lon2 = 1800000 -> 100075434   \* 10007.5 km
    [] lat1 = 0 /\ lon1 = 0 /\ lat2 = -900000 /\ lon2 = -1800000 -> 100075434   \* 10007.5 km
    [] lat1 = 0 /\ lon1 = 738567 /\ lat2 = 0 /\ lon2 = 738567 -> 0   \* 0 km
    [] lat1 = 0 /\ lon1 = 738567 /\ lat2 = 0 /\ lon2 = 1800000 -> 118025965   \* 11802.6 km
    [] lat1 = 0 /\ lon1 = 738567 /\ lat2 = 0 /\ lon2 = -1800000 -> 118025965   \* 11802.6 km
    [] lat1 = 0 /\ lon1 = 738567 /\ lat2 = 185204 /\ lon2 = 0 -> 83077930   \* 8307.79 km
    [] lat1 = 0 /\ lon1 = 738567 /\ lat2 = 185204 /\ lon2 = 1800000 -> 117072939   \* 11707.3 km
    [] lat1 = 0 /\ lon1 = 738567 /\ lat2 = 185204 /\ lon2 = -1800000 -> 117072939   \* 11707.3 km
    [] lat1 = 0 /\ lon1 = 738567 /\ lat2 = 900000 /\ lon2 = 0 -> 100075434   \* 10007.5 km
    [] lat1 = 0 /\ lon1 = 738567 /\ lat2 = 900000 /\ lon2 = 738567 -> 100075434   \* 10007.5 km
    [] lat1 = 0 /\ lon1 = 738567 /\ lat2 = 900000 /\ lon2 = 1800000 -> 100075434   \* 10007.5 km
    [] lat1 = 0 /\ lon1 = 738567 /\ lat2 = 900000 /\ lon2 = -1800000 -> 100075434   \* 10007.5 km
    [] lat1 = 0 /\ lon1 = 738567 /\ lat2 = -900000 /\ lon2 = 0 -> 100075434   \* 10007.5 km
    [] lat1 = 0 /\ lon1 = 738567 /\ lat2 = -900000 /\ lon2 = 738567 -> 100075434   \* 10007.5 km
    [] lat1 = 0 /\ lon1 = 738567 /\ lat2 = -900000 /\ lon2 = 1800000 -> 100075434   \* 10007.5 km
    [] lat1 = 0 /\ lon1 = 738567 /\ lat2 = -900000 /\ lon2 = -1800000 -> 100075434   \* 10007.5 km
    [] lat1 = 0 /\ lon1 = 1800000 /\ lat2 = 0 /\ lon2 = 0 -> 200150868   \* 20015.1 km
    [] lat1 = 0 /\ lon1 = 1800000 /\ lat2 = 0 /\ lon2 = 738567 -> 118025965   \* 11802.6 km
    [] lat1 = 0 /\ lon1 = 1800000 /\ lat2 = 0 /\ lon2 = 1800000 -> 0   \* 0 km
    [] lat1 = 0 /\ lon1 = 1800000 /\ lat2 = 0 /\ lon2 = -1800000 -> 1   \* 1.56044e-12 km
    [] lat1 = 0 /\ lon1 = 1800000 /\ lat2 = 185204 /\ lon2 = 0 -> 179557123   \* 17955.7 km
    [] lat1 = 0 /\ lon1 = 1800000 /\ lat2 = 185204 /\ lon2 = 738567 -> 117072939   \* 11707.3 km
    [] lat1 = 0 /\ lon1 = 1800000 /\ lat2 = 185204 /\ lon2 = 1800000 -> 20593746   \* 2059.37 km
    [] lat1 = 0 /\ lon1 = 1800000 /\ lat2 = 185204 /\ lon2 = -1800000 -> 20593746   \* 2059.37 km
    [] lat1 = 0 /\ lon1 = 1800000 /\ lat2 = 900000 /\ lon2 = 0 -> 100075434   \* 10007.5 km
    [] lat1 = 0 /\ lon1 = 1800000 /\ lat2 = 900000 /\ lon2 = 738567 -> 100075434   \* 10007.5 km
    [] lat1 = 0 /\ lon1 = 1800000 /\ lat2 = 900000 /\ lon2 = 1800000 -> 100075434   \* 10007.5 km
    [] lat1 = 0 /\ lon1 = 1800000 /\ lat2 = 900000 /\ lon2 = -1800000 -> 100075434   \* 10007.5 km
    [] lat1 = 0 /\ lon1 = 1800000 /\ lat2 = -900000 /\ lon2 = 0 -> 100075434   \* 10007.5 km
    [] lat1 = 0 /\ lon1 = 1800000 /\ lat2 = -900000 /\ lon2 = 738567 -> 100075434   \* 10007.5 km
    [] lat1 = 0 /\ lon1 = 1800000 /\ lat2 = -900000 /\ lon2 = 1800000 -> 100075434   \* 10007.5 km
    [] lat1 = 0 /\ lon1 = 1800000 /\ lat2 = -900000 /\ lon2 = -1800000 -> 100075434   \* 10007.5 km
    [] lat1 = 0 /\ lon1 = -1800000 /\ lat2 = 0 /\ lon2 = 0 -> 200150868   \* 20015.1 km
    [] lat1 = 0 /\ lon1 = -1800000 /\ lat2 = 0 /\ lon2 = 738567 -> 118025965   \* 11802.6 km
    [] lat1 = 0 /\ lon1 = -1800000 /\ lat2 = 0 /\ lon2 = 1800000 -> 1   \* 1.56044e-12 km
    [] lat1 = 0 /\ lon1 = -1800000 /\ lat2 = 0 /\ lon2 = -1800000 -> 0   \* 0 km
    [] lat1 = 0 /\ lon1 = -1800000 /\ lat2 = 185204 /\ lon2 = 0 -> 179557123   \* 17955.7 km
    [] lat1 = 0 /\ lon1 = -1800000 /\ lat2 = 185204 /\ lon2 = 738567 -> 117072939   \* 11707.3 km
    [] lat1 = 0 /\ lon1 = -1800000 /\ lat2 = 185204 /\ lon2 = 1800000 -> 20593746   \* 2059.37 km
    [] lat1 = 0 /\ lon1 = -1800000 /\ lat2 = 185204 /\ lon2 = -1800000 -> 20593746   \* 2059.37 km
    [] lat1 = 0 /\ lon1 = -1800000 /\ lat2 = 900000 /\ lon2 = 0 -> 100075434   \* 10007.5 km
    [] lat1 = 0 /\ lon1 = -1800000 /\ lat2 = 900000 /\ lon2 = 738567 -> 100075434   \* 10007.5 km
    [] lat1 = 0 /\ lon1 = -1800000 /\ lat2 = 900000 /\ lon2 = 1800000 -> 100075434   \* 10007.5 km
    [] lat1 = 0 /\ lon1 = -1800000 /\ lat2 = 900000 /\ lon2 = -1800000 -> 100075434   \* 10007.5 km
    [] lat1 = 0 /\ lon1 = -1800000 /\ lat2 = -900000 /\ lon2 = 0 -> 100075434   \* 10007.5 km
    [] lat1 = 0 /\ lon1 = -1800000 /\ lat2 = -900000 /\ lon2 = 738567 -> 100075434   \* 10007.5 km
    [] lat1 = 0 /\ lon1 = -1800000 /\ lat2 = -900000 /\ lon2 = 1800000 -> 100075434   \* 10007.5 km
    [] lat1 = 0 /\ lon1 = -1800000 /\ lat2 = -900000 /\ lon2 = -1800000 -> 100075434   \* 10007.5 km
    [] lat1 = 185204 /\ lon1 = 0 /\ lat2 = 0 /\ lon2 = 738567 -> 83077930   \* 8307.79 km
    [] lat1 = 185204 /\ lon1 = 0 /\ lat2 = 0 /\ lon2 = 1800000 -> 179557123   \* 17955.7 km
    [] lat1 = 185204 /\ lon1 = 0 /\ lat2 = 0 /\ lon2 = -1800000 -> 179557123   \* 17955.7 km
    [] lat1 = 185204 /\ lon1 = 0 /\ lat2 = 185204 /\ lon2 = 0 -> 0   \* 0 km
    [] lat1 = 185204 /\ lon1 = 0 /\ lat2 = 185204 /\ lon2 = 1800000 -> 158963378   \* 15896.3 km
    [] lat1 = 185204 /\ lon1 = 0 /\ lat2 = 185204 /\ lon2 = -1800000 -> 158963378   \* 15896.3 km
    [] lat1 = 185204 /\ lon1 = 0 /\ lat2 = 900000 /\ lon2 = 0 -> 79481689   \* 7948.17 km
    [] lat1 = 185204 /\ lon1 = 0 /\ lat2 = 900000 /\ lon2 = 738567 -> 79481689   \* 7948.17 km
    [] lat1 = 185204 /\ lon1 = 0 /\ lat2 = 900000 /\ lon2 = 1800000 -> 79481689   \* 7948.17 km
    [] lat1 = 185204 /\ lon1 = 0 /\ lat2 = 900000 /\ lon2 = -1800000 -> 79481689   \* 7948.17 km
    [] lat1 = 185204 /\ lon1 = 0 /\ lat2 = -900000 /\ lon2 = 0 -> 120669180   \* 12066.9 km
    [] lat1 = 185204 /\ lon1 = 0 /\ lat2 = -900000 /\ lon2 = 738567 -> 120669180   \* 12066.9 km
    [] lat1 = 185204 /\ lon1 = 0 /\ lat2 = -900000 /\ lon2 = 1800000 -> 120669180   \* 12066.9 km
    [] lat1 = 185204 /\ lon1 = 0 /\ lat2 = -900000 /\ lon2 = -1800000 -> 120669180   \* 12066.9 km
    [] lat1 = 185204 /\ lon1 = 738567 /\ lat2 = 0 /\ lon2 = 738567 -> 20593746   \* 2059.37 km
    [] lat1 = 185204 /\ lon1 = 738567 /\ lat2 = 0 /\ lon2 = 1800000 -> 117072939   \* 11707.3 km
    [] lat1 = 185204 /\ lon1 = 738567 /\ lat2 = 0 /\ lon2 = -1800000 -> 117072939   \* 11707.3 km
    [] lat1 = 185204 /\ lon1 = 738567 /\ lat2 = 185204 /\ lon2 = 0 -> 77234452   \* 7723.45 km
    [] lat1 = 185204 /\ lon1 = 738567 /\ lat2 = 185204 /\ lon2 = 1800000 -> 109609547   \* 10961 km
    [] lat1 = 185204 /\ lon1 = 738567 /\ lat2 = 185204 /\ lon2 = -1800000 -> 109609547   \* 10961 km
    [] lat1 = 185204 /\ lon1 = 738567 /\ lat2 = 900000 /\ lon2 = 0 -> 79481689   \* 7948.17 km
    [] lat1 = 185204 /\ lon1 = 738567 /\ lat2 = 900000 /\ lon2 = 738567 -> 79481689   \* 7948.17 km
    [] lat1 = 185204 /\ lon1 = 738567 /\ lat2 = 900000 /\ lon2 = 1800000 -> 79481689   \* 7948.17 km
    [] lat1 = 185204 /\ lon1 = 738567 /\ lat2 = 900000 /\ lon2 = -1800000 -> 79481689   \* 7948.17 km
    [] lat1 = 185204 /\ lon1 = 738567 /\ lat2 = -900000 /\ lon2 = 0 -> 120669180   \* 12066.9 km
    [] lat1 = 185204 /\ lon1 = 738567 /\ lat2 = -900000 /\ lon2 = 738567 -> 120669180   \* 12066.9 km
    [] lat1 = 185204 /\ lon1 = 738567 /\ lat2 = -900000 /\ lon2 = 1800000 -> 120669180   \* 12066.9 km
    [] lat1 = 185204 /\ lon1 = 738567 /\ lat2 = -900000 /\ lon2 = -1800000 -> 120669180   \* 12066.9 km
    [] lat1 = 185204 /\ lon1 = 1800000 /\ lat2 = 0 /\ lon2 = 0 -> 179557123   \* 17955.7 km
    [] lat1 = 185204 /\ lon1 = 1800000 /\ lat2 = 0 /\ lon2 = 738567 -> 117072939   \* 11707.3 km
    [] lat1 = 185204 /\ lon1 = 1800000 /\ lat2 = 0 /\ lon2 = 1800000 -> 20593746   \* 2059.37 km
    [] lat1 = 185204 /\ lon1 = 1800000 /\ lat2 = 0 /\ lon2 = -1800000 -> 20593746   \* 2059.37 km
    [] lat1 = 185204 /\ lon1 = 1800000 /\ lat2 = 185204 /\ lon2 = 0 -> 158963378   \* 15896.3 km
    [] lat1 = 185204 /\ lon1 = 1800000 /\ lat2 = 185204 /\ lon2 = 738567 -> 109609547   \* 10961 km
    [] lat1 = 185204 /\ lon1 = 1800000 /\ lat2 = 185204 /\ lon2 = 1800000 -> 0   \* 0 km
    [] lat1 = 185204 /\ lon1 = 1800000 /\ lat2 = 185204 /\ lon2 = -1800000 -> 1   \* 1.47963e-12 km
    [] lat1 = 185204 /\ lon1 = 1800000 /\ lat2 = 900000 /\ lon2 = 0 -> 79481689   \* 7948.17 km
    [] lat1 = 185204 /\ lon1 = 1800000 /\ lat2 = 900000 /\ lon2 = 738567 -> 79481689   \* 7948.17 km
    [] lat1 = 185204 /\ lon1 = 1800000 /\ lat2 = 900000 /\ lon2 = 1800000 -> 79481689   \* 7948.17 km
    [] lat1 = 185204 /\ lon1 = 1800000 /\ lat2 = 900000 /\ lon2 = -1800000 -> 79481689   \* 7948.17 km
    [] lat1 = 185204 /\ lon1 = 1800000 /\ lat2 = -900000 /\ lon2 = 0 -> 120669180   \* 12066.9 km
    [] lat1 = 185204 /\ lon1 = 1800000 /\ lat2 = -900000 /\ lon2 = 738567 -> 120669180   \* 12066.9 km
    [] lat1 = 185204 /\ lon1 = 1800000 /\ lat2 = -900000 /\ lon2 = 1800000 -> 120669180   \* 12066.9 km
    [] lat1 = 185204 /\ lon1 = 1800000 /\ lat2 = -900000 /\ lon2 = -1800000 -> 120669180   \* 12066.9 km
    [] lat1 = 185204 /\ lon1 = -1800000 /\ lat2 = 0 /\ lon2 = 0 -> 179557123   \* 17955.7 km
    [] lat1 = 185204 /\ lon1 = -1800000 /\ lat2 = 0 /\ lon2 = 738567 -> 117072939   \* 11707.3 km
    [] lat1 = 185204 /\ lon1 = -1800000 /\ lat2 = 0 /\ lon2 = 1800000 -> 20593746   \* 2059.37 km
    [] lat1 = 185204 /\ lon1 = -1800000 /\ lat2 = 0 /\ lon2 = -1800000 -> 20593746   \* 2059.37 km
    [] lat1 = 185204 /\ lon1 = -1800000 /\ lat2 = 185204 /\ lon2 = 0 -> 158963378   \* 15896.3 km
    [] lat1 = 185204 /\ lon1 = -1800000 /\ lat2 = 185204 /\ lon2 = 738567 -> 109609547   \* 10961 km
    [] lat1 = 185204 /\ lon1 = -1800000 /\ lat2 = 185204 /\ lon2 = 1800000 -> 1   \* 1.47963e-12 km
    [] lat1 = 185204 /\ lon1 = -1800000 /\ lat2 = 185204 /\ lon2 = -1800000 -> 0   \* 0 km
    [] lat1 = 185204 /\ lon1 = -1800000 /\ lat2 = 900000 /\ lon2 = 0 -> 79481689   \* 7948.17 km
    [] lat1 = 185204 /\ lon1 = -1800000 /\ lat2 = 900000 /\ lon2 = 738567 -> 79481689   \* 7948.17 km
    [] lat1 = 185204 /\ lon1 = -1800000 /\ lat2 = 900000 /\ lon2 = 1800000 -> 79481689   \* 7948.17 km
    [] lat1 = 185204 /\ lon1 = -1800000 /\ lat2 = 900000 /\ lon2 = -1800000 -> 79481689   \* 7948.17 km
    [] lat1 = 185204 /\ lon1 = -1800000 /\ lat2 = -900000 /\ lon2 = 0 -> 120669180   \* 12066.9 km
    [] lat1 = 185204 /\ lon1 = -1800000 /\ lat2 = -900000 /\ lon2 = 738567 -> 120669180   \* 12066.9 km
    [] lat1 = 185204 /\ lon1 = -1800000 /\ lat2 = -900000 /\ lon2 = 1800000 -> 120669180   \* 12066.9 km
    [] lat1 = 185204 /\ lon1 = -1800000 /\ lat2 = -900000 /\ lon2 = -1800000 -> 120669180   \* 12066.9 km
    [] lat1 = 900000 /\ lon1 = 0 /\ lat2 = 0 /\ lon2 = 0 -> 100075434   \* 10007.5 km
    [] lat1 = 900000 /\ lon1 = 0 /\ lat2 = 0 /\ lon2 = 738567 -> 100075434   \* 10007.5 km
    [] lat1 = 900000 /\ lon1 = 0 /\ lat2 = 0 /\ lon2 = 1800000 -> 100075434   \* 10007.5 km
    [] lat1 = 900000 /\ lon1 = 0 /\ lat2 = 0 /\ lon2 = -1800000 -> 100075434   \* 10007.5 km
    [] lat1 = 900000 /\ lon1 = 0 /\ lat2 = 185204 /\ lon2 = 0 -> 79481689   \* 7948.17 km
    [] lat1 = 900000 /\ lon1 = 0 /\ lat2 = 185204 /\ lon2 = 738567 -> 79481689   \* 7948.17 km
    [] lat1 = 900000 /\ lon1 = 0 /\ lat2 = 185204 /\ lon2 = 1800000 -> 79481689   \* 7948.17 km
    [] lat1 = 900000 /\ lon1 = 0 /\ lat2 = 185204 /\ lon2 = -1800000 -> 79481689   \* 7948.17 km
    [] lat1 = 900000 /\ lon1 = 0 /\ lat2 = 900000 /\ lon2 = 0 -> 0   \* 0 km
    [] lat1 = 900000 /\ lon1 = 0 /\ lat2 = 900000 /\ lon2 = 738567 -> 1   \* 4.6877e-13 km
    [] lat1 = 900000 /\ lon1 = 0 /\ lat2 = 900000 /\ lon2 = 1800000 -> 1   \* 7.80222e-13 km
    [] lat1 = 900000 /\ lon1 = 0 /\ lat2 = 900000 /\ lon2 = -1800000 -> 1   \* 7.80222e-13 km
    [] lat1 = 900000 /\ lon1 = 0 /\ lat2 = -900000 /\ lon2 = 0 -> 200150868   \* 20015.1 km
    [] lat1 = 900000 /\ lon1 = 0 /\ lat2 = -900000 /\ lon2 = 738567 -> 200150868   \* 20015.1 km
    [] lat1 = 900000 /\ lon1 = 0 /\ lat2 = -900000 /\ lon2 = 1800000 -> 200150868   \* 20015.1 km
    [] lat1 = 900000 /\ lon1 = 0 /\ lat2 = -900000 /\ lon2 = -1800000 -> 200150868   \* 20015.1 km
    [] lat1 = 900000 /\ lon1 = 738567 /\ lat2 = 0 /\ lon2 = 0 -> 100075434   \* 10007.5 km
    [] lat1 = 900000 /\ lon1 = 738567 /\ lat2 = 0 /\ lon2 = 738567 -> 100075434   \* 10007.5 km
    [] lat1 = 900000 /\ lon1 = 738567 /\ lat2 = 0 /\ lon2 = 1800000 -> 100075434   \* 10007.5 km
    [] lat1 = 900000 /\ lon1 = 738567 /\ lat2 = 0 /\ lon2 = -1800000 -> 100075434   \* 10007.5 km
    [] lat1 = 900000 /\ lon1 = 738567 /\ lat2 = 185204 /\ lon2 = 0 -> 79481689   \* 7948.17 km
    [] lat1 = 900000 /\ lon1 = 738567 /\ lat2 = 185204 /\ lon2 = 738567 -> 79481689   \* 7948.17 km
    [] lat1 = 900000 /\ lon1 = 738567 /\ lat2 = 185204 /\ lon2 = 1800000 -> 79481689   \* 7948.17 km
    [] lat1 = 900000 /\ lon1 = 738567 /\ lat2 = 185204 /\ lon2 = -1800000 -> 79481689   \* 7948.17 km
    [] lat1 = 900000 /\ lon1 = 738567 /\ lat2 = 900000 /\ lon2 = 0 -> 1   \* 4.6877e-13 km
    [] lat1 = 900000 /\ lon1 = 738567 /\ lat2 = 900000 /\ lon2 = 738567 -> 0   \* 0 km
    [] lat1 = 900000 /\ lon1 = 738567 /\ lat2 = 900000 /\ lon2 = 1800000 -> 1   \* 6.237e-13 km
    [] lat1 = 900000 /\ lon1 = 738567 /\ lat2 = 900000 /\ lon2 = -1800000 -> 1   \* 6.237e-13 km
    [] lat1 = 900000 /\ lon1 = 738567 /\ lat2 = -900000 /\ lon2 = 0 -> 200150868   \* 20015.1 km
    [] lat1 = 900000 /\ lon1 = 738567 /\ lat2 = -900000 /\ lon2 = 738567 -> 200150868   \* 20015.1 km
    [] lat1 = 900000 /\ lon1 = 738567 /\ lat2 = -900000 /\ lon2 = 1800000 -> 200150868   \* 20015.1 km
    [] lat1 = 900000 /\ lon1 = 738567 /\ lat2 = -900000 /\ lon2 = -1800000 -> 200150868   \* 20015.1 km
    [] lat1 = 900000 /\ lon1 = 1800000 /\ lat2 = 0 /\ lon2 = 0 -> 100075434   \* 10007.5 km
    [] lat1 = 900000 /\ lon1 = 1800000 /\ lat2 = 0 /\ lon2 = 738567 -> 100075434   \* 10007.5 km
    [] lat1 = 900000 /\ lon1 = 1800000 /\ lat2 = 0 /\ lon2 = 1800000 -> 100075434   \* 10007.5 km
    [] lat1 = 900000 /\ lon1 = 1800000 /\ lat2 = 0 /\ lon2 = -1800000 -> 100075434   \* 10007.5 km
    [] lat1 = 900000 /\ lon1 = 1800000 /\ lat2 = 185204 /\ lon2 = 0 -> 79481689   \* 7948.17 km
    [] lat1 = 900000 /\ lon1 = 1800000 /\ lat2 = 185204 /\ lon2 = 738567 -> 79481689   \* 7948.17 km
    [] lat1 = 900000 /\ lon1 = 1800000 /\ lat2 = 185204 /\ lon2 = 1800000 -> 79481689   \* 7948.17 km
    [] lat1 = 900000 /\ lon1 = 1800000 /\ lat2 = 185204 /\ lon2 = -1800000 -> 79481689   \* 7948.17 km
    [] lat1 = 900000 /\ lon1 = 1800000 /\ lat2 = 900000 /\ lon2 = 0 -> 1   \* 7.80222e-13 km
    [] lat1 = 900000 /\ lon1 = 1800000 /\ lat2 = 900000 /\ lon2 = 738567 -> 1   \* 6.237e-13 km
    [] lat1 = 900000 /\ lon1 = 1800000 /\ lat2 = 900000 /\ lon2 = 1800000 -> 0   \* 0 km
    [] lat1 = 900000 /\ lon1 = 1800000 /\ lat2 = 900000 /\ lon2 = -1800000 -> 1   \* 9.55497e-29 km
    [] lat1 = 900000 /\ lon1 = 1800000 /\ lat2 = -900000 /\ lon2 = 0 -> 200150868   \* 20015.1 km
    [] lat1 = 900000 /\ lon1 = 1800000 /\ lat2 = -900000 /\ lon2 = 738567 -> 200150868   \* 20015.1 km
    [] lat1 = 900000 /\ lon1 = 1800000 /\ lat2 = -900000 /\ lon2 = 1800000 -> 200150868   \* 20015.1 km
    [] lat1 = 900000 /\ lon1 = 1800000 /\ lat2 = -900000 /\ lon2 = -1800000 -> 200150868   \* 20015.1 km
    [] lat1 = 900000 /\ lon1 = -1800000 /\ lat2 = 0 /\ lon2 = 0 -> 100075434   \* 10007.5 km
    [] lat1 = 900000 /\ lon1 = -1800000 /\ lat2 = 0 /\ lon2 = 738567 -> 100075434   \* 10007.5 km
    [] lat1 = 900000 /\ lon1 = -1800000 /\ lat2 = 0 /\ lon2 = 1800000 -> 100075434   \* 10007.5 km
    [] lat1 = 900000 /\ lon1 = -1800000 /\ lat2 = 0 /\ lon2 = -1800000 -> 100075434   \* 10007.5 km
    [] lat1 = 900000 /\ lon1 = -1800000 /\ lat2 = 185204 /\ lon2 = 0 -> 79481689   \* 7948.17 km
    [] lat1 = 900000 /\ lon1 = -1800000 /\ lat2 = 185204 /\ lon2 = 738567 -> 79481689   \* 7948.17 km
    [] lat1 = 900000 /\ lon1 = -1800000 /\ lat2 = 185204 /\ lon2 = 1800000 -> 79481689   \* 7948.17 km
    [] lat1 = 900000 /\ lon1 = -1800000 /\ lat2 = 185204 /\ lon2 = -1800000 -> 79481689   \* 7948.17 km
    [] lat1 = 900000 /\ lon1 = -1800000 /\ lat2 = 900000 /\ lon2 = 0 -> 1   \* 7.80222e-13 km
    [] lat1 = 900000 /\ lon1 = -1800000 /\ lat2 = 900000 /\ lon2 = 738567 -> 1   \* 6.237e-13 km
    [] lat1 = 900000 /\ lon1 = -1800000 /\ lat2 = 900000 /\ lon2 = 1800000 -> 1   \* 9.55497e-29 km
    [] lat1 = 900000 /\ lon1 = -1800000 /\ lat2 = 900000 /\ lon2 = -1800000 -> 0   \* 0 km
    [] lat1 = 900000 /\ lon1 = -1800000 /\ lat2 = -900000 /\ lon2 = 0 -> 200150868   \* 20015.1 km
    [] lat1 = 900000 /\ lon1 = -1800000 /\ lat2 = -900000 /\ lon2 = 738567 -> 200150868   \* 20015.1 km
    [] lat1 = 900000 /\ lon1 = -1800000 /\ lat2 = -900000 /\ lon2 = 1800000 -> 200150868   \* 20015.1 km
    [] lat1 = 900000 /\ lon1 = -1800000 /\ lat2 = -900000 /\ lon2 = -1800000 -> 200150868   \* 20015.1 km
    [] lat1 = -900000 /\ lon1 = 0 /\ lat2 = 0 /\ lon2 = 0 -> 100075434   \* 10007.5 km
    [] lat1 = -900000 /\ lon1 = 0 /\ lat2 = 0 /\ lon2 = 738567 -> 100075434   \* 10007.5 km
    [] lat1 = -900000 /\ lon1 = 0 /\ lat2 = 0 /\ lon2 = 1800000 -> 100075434   \* 10007.5 km
    [] lat1 = -900000 /\ lon1 = 0 /\ lat2 = 0 /\ lon2 = -1800000 -> 100075434   \* 10007.5 km
    [] lat1 = -900000 /\ lon1 = 0 /\ lat2 = 185204 /\ lon2 = 0 -> 120669180   \* 12066.9 km
    [] lat1 = -900000 /\ lon1 = 0 /\ lat2 = 185204 /\ lon2 = 738567 -> 120669180   \* 12066.9 km
    [] lat1 = -900000 /\ lon1 = 0 /\ lat2 = 185204 /\ lon2 = 1800000 -> 120669180   \* 12066.9 km
    [] lat1 = -900000 /\ lon1 = 0 /\ lat2 = 185204 /\ lon2 = -1800000 -> 120669180   \* 12066.9 km
    [] lat1 = -900000 /\ lon1 = 0 /\ lat2 = 900000 /\ lon2 = 0 -> 200150868   \* 20015.1 km
    [] lat1 = -900000 /\ lon1 = 0 /\ lat2 = 900000 /\ lon2 = 738567 -> 200150868   \* 20015.1 km
    [] lat1 = -900000 /\ lon1 = 0 /\ lat2 = 900000 /\ lon2 = 1800000 -> 200150868   \* 20015.1 km
    [] lat1 = -900000 /\ lon1 = 0 /\ lat2 = 900000 /\ lon2 = -1800000 -> 200150868   \* 20015.1 km
    [] lat1 = -900000 /\ lon1 = 0 /\ lat2 = -900000 /\ lon2 = 0 -> 0   \* 0 km
    [] lat1 = -900000 /\ lon1 = 0 /\ lat2 = -900000 /\ lon2 = 738567 -> 1   \* 4.6877e-13 km
    [] lat1 = -900000 /\ lon1 = 0 /\ lat2 = -900000 /\ lon2 = 1800000 -> 1   \* 7.80222e-13 km
    [] lat1 = -900000 /\ lon1 = 0 /\ lat2 = -900000 /\ lon2 = -1800000 -> 1   \* 7.80222e-13 km
    [] lat1 = -900000 /\ lon1 = 738567 /\ lat2 = 0 /\ lon2 = 0 -> 100075434   \* 10007.5 km
    [] lat1 = -900000 /\ lon1 = 738567 /\ lat2 = 0 /\ lon2 = 738567 -> 100075434   \* 10007.5 km
    [] lat1 = -900000 /\ lon1 = 738567 /\ lat2 = 0 /\ lon2 = 1800000 -> 100075434   \* 10007.5 km
    [] lat1 = -900000 /\ lon1 = 738567 /\ lat2 = 0 /\ lon2 = -1800000 -> 100075434   \* 10007.5 km
    [] lat1 = -900000 /\ lon1 = 738567 /\ lat2 = 185204 /\ lon2 = 0 -> 120669180   \* 12066.9 km
    [] lat1 = -900000 /\ lon1 = 738567 /\ lat2 = 185204 /\ lon2 = 738567 -> 120669180   \* 12066.9 km
    [] lat1 = -900000 /\ lon1 = 738567 /\ lat2 = 185204 /\ lon2 = 1800000 -> 120669180   \* 12066.9 km
    [] lat1 = -900000 /\ lon1 = 738567 /\ lat2 = 185204 /\ lon2 = -1800000 -> 120669180   \* 12066.9 km
    [] lat1 = -900000 /\ lon1 = 738567 /\ lat2 = 900000 /\ lon2 = 0 -> 200150868   \* 20015.1 km
    [] lat1 = -900000 /\ lon1 = 738567 /\ lat2 = 900000 /\ lon2 = 738567 -> 200150868   \* 20015.1 km
    [] lat1 = -900000 /\ lon1 = 738567 /\ lat2 = 900000 /\ lon2 = 1800000 -> 200150868   \* 20015.1 km
    [] lat1 = -900000 /\ lon1 = 738567 /\ lat2 = 900000 /\ lon2 = -1800000 -> 200150868   \* 20015.1 km
    [] lat1 = -900000 /\ lon1 = 738567 /\ lat2 = -900000 /\ lon2 = 0 -> 1   \* 4.6877e-13 km
    [] lat1 = -900000 /\ lon1 = 738567 /\ lat2 = -900000 /\ lon2 = 738567 -> 0   \* 0 km
    [] lat1 = -900000 /\ lon1 = 738567 /\ lat2 = -900000 /\ lon2 = 1800000 -> 1   \* 6.237e-13 km
    [] lat1 = -900000 /\ lon1 = 738567 /\ lat2 = -900000 /\ lon2 = -1800000 -> 1   \* 6.237e-13 km
    [] lat1 = -900000 /\ lon1 = 1800000 /\ lat2 = 0 /\ lon2 = 0 -> 100075434   \* 10007.5 km
    [] lat1 = -900000 /\ lon1 = 1800000 /\ lat2 = 0 /\ lon2 = 738567 -> 100075434   \* 10007.5 km
    [] lat1 = -900000 /\ lon1 = 1800000 /\ lat2 = 0 /\ lon2 = 1800000 -> 100075434   \* 10007.5 km
    [] lat1 = -900000 /\ lon1 = 1800000 /\ lat2 = 0 /\ lon2 = -1800000 -> 100075434   \* 10007.5 km
    [] lat1 = -900000 /\ lon1 = 1800000 /\ lat2 = 185204 /\ lon2 = 0 -> 120669180   \* 12066.9 km
    [] lat1 = -900000 /\ lon1 = 1800000 /\ lat2 = 185204 /\ lon2 = 738567 -> 120669180   \* 12066.9 km
    [] lat1 = -900000 /\ lon1 = 1800000 /\ lat2 = 185204 /\ lon2 = 1800000 -> 120669180   \* 12066.9 km
    [] lat1 = -900000 /\ lon1 = 1800000 /\ lat2 = 185204 /\ lon2 = -1800000 -> 120669180   \* 12066.9 km
    [] lat1 = -900000 /\ lon1 = 1800000 /\ lat2 = 900000 /\ lon2 = 0 -> 200150868   \* 20015.1 km
    [] lat1 = -900000 /\ lon1 = 1800000 /\ lat2 = 900000 /\ lon2 = 738567 -> 200150868   \* 20015.1 km
    [] lat1 = -900000 /\ lon1 = 1800000 /\ lat2 = 900000 /\ lon2 = 1800000 -> 200150868   \* 20015.1 km
    [] lat1 = -900000 /\ lon1 = 1800000 /\ lat2 = 900000 /\ lon2 = -1800000 -> 200150868   \* 20015.1 km
    [] lat1 = -900000 /\ lon1 = 1800000 /\ lat2 = -900000 /\ lon2 = 0 -> 1   \* 7.80222e-13 km
    [] lat1 = -900000 /\ lon1 = 1800000 /\ lat2 = -900000 /\ lon2 = 738567 -> 1   \* 6.237e-13 km
    [] lat1 = -900000 /\ lon1 = 1800000 /\ lat2 = -900000 /\ lon2 = 1800000 -> 0   \* 0 km
    [] lat1 = -900000 /\ lon1 = 1800000 /\ lat2 = -900000 /\ lon2 = -1800000 -> 1   \* 9.55497e-29 km
    [] lat1 = -900000 /\ lon1 = -1800000 /\ lat2 = 0 /\ lon2 = 0 -> 100075434   \* 10007.5 km
    [] lat1 = -900000 /\ lon1 = -1800000 /\ lat2 = 0 /\ lon2 = 738567 -> 100075434   \* 10007.5 km
    [] lat1 = -900000 /\ lon1 = -1800000 /\ lat2 = 0 /\ lon2 = 1800000 -> 100075434   \* 10007.5 km
    [] lat1 = -900000 /\ lon1 = -1800000 /\ lat2 = 0 /\ lon2 = -1800000 -> 100075434   \* 10007.5 km
    [] lat1 = -900000 /\ lon1 = -1800000 /\ lat2 = 185204 /\ lon2 = 0 -> 120669180   \* 12066.9 km
    [] lat1 = -900000 /\ lon1 = -1800000 /\ lat2 = 185204 /\ lon2 = 738567 -> 120669180   \* 12066.9 km
    [] lat1 = -900000 /\ lon1 = -1800000 /\ lat2 = 185204 /\ lon2 = 1800000 -> 120669180   \* 12066.9 km
    [] lat1 = -900000 /\ lon1 = -1800000 /\ lat2 = 185204 /\ lon2 = -1800000 -> 120669180   \* 12066.9 km
    [] lat1 = -900000 /\ lon1 = -1800000 /\ lat2 = 900000 /\ lon2 = 0 -> 200150868   \* 20015.1 km
    [] lat1 = -900000 /\ lon1 = -1800000 /\ lat2 = 900000 /\ lon2 = 738567 -> 200150868   \* 20015.1 km
    [] lat1 = -900000 /\ lon1 = -1800000 /\ lat2 = 900000 /\ lon2 = 1800000 -> 200150868   \* 20015.1 km
    [] lat1 = -900000 /\ lon1 = -1800000 /\ lat2 = 900000 /\ lon2 = -1800000 -> 200150868   \* 20015.1 km
    [] lat1 = -900000 /\ lon1 = -1800000 /\ lat2 = -900000 /\ lon2 = 0 -> 1   \* 7.80222e-13 km
    [] lat1 = -900000 /\ lon1 = -1800000 /\ lat2 = -900000 /\ lon2 = 738567 -> 1   \* 6.237e-13 km
    [] lat1 = -900000 /\ lon1 = -1800000 /\ lat2 = -900000 /\ lon2 = 1800000 -> 1   \* 9.55497e-29 km
    [] lat1 = -900000 /\ lon1 = -1800000 /\ lat2 = -900000 /\ lon2 = -1800000 -> 0   \* 0 km

\* The same expression where an argument is 1e-200 degrees, a double
\* below the grid: sin(dLat / 2) squared underflows to 0 there.
HaversineBelowKm(lat1, lon1, lat2, lon2) ==
    CASE lat1 = NumBelow(0, 1) /\ lon1 = Num(0) /\ lat2 = Num(0) /\ lon2 = Num(0) -> 0   \* 0 km
      [] lat1 = Num(0) /\ lon1 = Num(0) /\ lat2 = NumBelow(0, 1) /\ lon2 = Num(0) -> 0   \* 0 km
      [] lat1 = NumBelow(0, 1) /\ lon1 = Num(0) /\ lat2 = Num(0) /\ lon2 = Num(738567) -> 82124904   \* 8212.49 km
      [] lat1 = Num(0) /\ lon1 = Num(738567) /\ lat2 = NumBelow(0, 1) /\ lon2 = Num(0) -> 82124904   \* 8212.49 km
      [] lat1 = NumBelow(0, 1) /\ lon1 = Num(0) /\ lat2 = Num(0) /\ lon2 = Num(1800000) -> 200150868   \* 20015.1 km
      [] lat1 = Num(0) /\ lon1 = Num(1800000) /\ lat2 = NumBelow(0, 1) /\ lon2 = Num(0) -> 200150868   \* 20015.1 km
      [] lat1 = NumBelow(0, 1) /\ lon1 = Num(0) /\ lat2 = Num(0) /\ lon2 = Num(-1800000) -> 200150868   \* 20015.1 km
      [] lat1 = Num(0) /\ lon1 = Num(-1800000) /\ lat2 = NumBelow(0, 1) /\ lon2 = Num(0) -> 200150868   \* 20015.1 km
      [] lat1 = NumBelow(0, 1) /\ lon1 = Num(0) /\ lat2 = Num(185204) /\ lon2 = Num(0) -> 20593746   \* 2059.37 km
      [] lat1 = Num(185204) /\ lon1 = Num(0) /\ lat2 = NumBelow(0, 1) /\ lon2 = Num(0) -> 20593746   \* 2059.37 km
      [] lat1 = NumBelow(0, 1) /\ lon1 = Num(0) /\ lat2 = Num(185204) /\ lon2 = Num(738567) -> 83077930   \* 8307.79 km
      [] lat1 = Num(185204) /\ lon1 = Num(738567) /\ lat2 = NumBelow(0, 1) /\ lon2 = Num(0) -> 83077930   \* 8307.79 km
      [] lat1 = NumBelow(0, 1) /\ lon1 = Num(0) /\ lat2 = Num(185204) /\ lon2 = Num(1800000) -> 179557123   \* 17955.7 km
      [] lat1 = Num(185204) /\ lon1 = Num(1800000) /\ lat2 = NumBelow(0, 1) /\ lon2 = Num(0) -> 179557123   \* 17955.7 km
      [] lat1 = NumBelow(0, 1) /\ lon1 = Num(0) /\ lat2 = Num(185204) /\ lon2 = Num(-1800000) -> 179557123   \* 17955.7 km
      [] lat1 = Num(185204) /\ lon1 = Num(-1800000) /\ lat2 = NumBelow(0, 1) /\ lon2 = Num(0) -> 179557123   \* 17955.7 km
      [] lat1 = NumBelow(0, 1) /\ lon1 = Num(0) /\ lat2 = Num(900000) /\ lon2 = Num(0) -> 100075434   \* 10007.5 km
      [] lat1 = Num(900000) /\ lon1 = Num(0) /\ lat2 = NumBelow(0, 1) /\ lon2 = Num(0) -> 100075434   \* 10007.5 km
      [] lat1 = NumBelow(0, 1) /\ lon1 = Num(0) /\ lat2 = Num(900000) /\ lon2 = Num(738567) -> 100075434   \* 10007.5 km
      [] lat1 = Num(900000) /\ lon1 = Num(738567) /\ lat2 = NumBelow(0, 1) /\ lon2 = Num(0) -> 100075434   \* 10007.5 km
      [] lat1 = NumBelow(0, 1) /\ lon1 = Num(0) /\ lat2 = Num(900000) /\ lon2 = Num(1800000) -> 100075434   \* 10007.5 km
      [] lat1 = Num(900000) /\ lon1 = Num(1800000) /\ lat2 = NumBelow(0, 1) /\ lon2 = Num(0) -> 100075434   \* 10007.5 km
      [] lat1 = NumBelow(0, 1) /\ lon1 = Num(0) /\ lat2 = Num(900000) /\ lon2 = Num(-1800000) -> 100075434   \* 10007.5 km
      [] lat1 = Num(900000) /\ lon1 = Num(-1800000) /\ lat2 = NumBelow(0, 1) /\ lon2 = Num(0) -> 100075434   \* 10007.5 km
      [] lat1 = NumBelow(0, 1) /\ lon1 = Num(0) /\ lat2 = Num(-900000) /\ lon2 = Num(0) -> 100075434   \* 10007.5 km
      [] lat1 = Num(-900000) /\ lon1 = Num(0) /\ lat2 = NumBelow(0, 1) /\ lon2 = Num(0) -> 100075434   \* 10007.5 km
      [] lat1 = NumBelow(0, 1) /\ lon1 = Num(0) /\ lat2 = Num(-900000) /\ lon2 = Num(738567) -> 100075434   \* 10007.5 km
      [] lat1 = Num(-900000) /\ lon1 = Num(738567) /\ lat2 = NumBelow(0, 1) /\ lon2 = Num(0) -> 100075434   \* 10007.5 km
      [] lat1 = NumBelow(0, 1) /\ lon1 = Num(0) /\ lat2 = Num(-900000) /\ lon2 = Num(1800000) -> 100075434   \* 10007.5 km
      [] lat1 = Num(-900000) /\ lon1 = Num(1800000) /\ lat2 = NumBelow(0, 1) /\ lon2 = Num(0) -> 100075434   \* 10007.5 km
      [] lat1 = NumBelow(0, 1) /\ lon1 = Num(0) /\ lat2 = Num(-900000) /\ lon2 = Num(-1800000) -> 100075434   \* 10007.5 km
      [] lat1 = Num(-900000) /\ lon1 = Num(-1800000) /\ lat2 = NumBelow(0, 1) /\ lon2 = Num(0) -> 100075434   \* 10007.5 km
      [] lat1 = NumBelow(0, 1) /\ lon1 = Num(0) /\ lat2 = NumBelow(0, 1) /\ lon2 = Num(0) -> 0   \* 0 km

\* getDistance with lat1 typed where lat2 belongs.
getDistanceLat1Twice(lat1, lon1, lat2, lon2) ==
    LET a1 == ToNumber(lat1)
        o1 == ToNumber(lon1)
        o2 == ToNumber(lon2)
    IN  IF ~(IsNum(a1) /\ IsNum(o1) /\ IsNum(o2)) THEN NaN
        ELSE IF OnGrid(a1) /\ OnGrid(o1) /\ OnGrid(o2)
             THEN Num(HaversineKm(a1.v, o1.v, a1.v, o2.v))
        ELSE Num(0)

\* A NaN operand makes every intermediate value, and the result, NaN;
\* a null coordinate of a row enters the arithmetic as 0.
getDistance(lat1, lon1, lat2, lon2) ==
    LET a1 == ToNumber(lat1)
        o1 == ToNumber(lon1)
        a2 == ToNumber(lat2)
        o2 == ToNumber(lon2)
    IN  IF ~(IsNum(a1) /\ IsNum(o1) /\ IsNum(a2) /\ IsNum(o2)) THEN NaN
        ELSE IF OnGrid(a1) /\ OnGrid(o1) /\ OnGrid(a2) /\ OnGrid(o2)
             THEN Num(HaversineKm(a1.v, o1.v, a2.v, o2.v))
        ELSE Num(HaversineBelowKm(a1, o1, a2, o2))

\* x <= y on JavaScript numbers: false when either is NaN.
LessEq(x, y) ==
    CASE IsNum(x) /\ IsNum(y) -> x.v <= y.v
      [] IsNum(x) /\ IsInfinity(y) -> ~y.neg
      [] IsInfinity(x) /\ IsNum(y) -> x.neg
      [] IsInfinity(x) /\ IsInfinity(y) -> x.neg \/ ~y.neg
      [] OTHER -> FALSE

(***************************************************************************)
(* GET /api/temples                                                        *)
(***************************************************************************)
\* The default of the destructuring `radius = 10`, in km.
DefaultRadius == 10

\* The destructuring with a default of 5 in place of 10.
RadiusDefaultFive(q) == IF q.radius = Undefined THEN Num(5 * Scale) ELSE q.radius

\* const { city, type, lat, lng, radius = 10 } = req.query
Radius(q) == IF q.radius = Undefined THEN Num(DefaultRadius * Scale) ELSE q.radius

\* WHERE 1=1 [AND city LIKE '%city%'] [AND type IN (...)]
Selected(t, q) ==
    /\ Truthy(q.city) => Like(t.city, "%" \o StringOf(q.city) \o "%")
    /\ Truthy(q.type) => InList(t.type, split(q.type.s, ","))

\* db.prepare(query).all(...params): the matching rows in rowid order.
SelectTemples(table, q) == SelectSeq(table, LAMBDA t : Selected(t, q))

\* lat || lng in place of lat && lng.
HasEitherCoordinate(q) == Truthy(q.lat) \/ Truthy(q.lng)

\* lat && lng
HasReferencePoint(q) == Truthy(q.lat) /\ Truthy(q.lng)

\* const d = getDistance(userLat, userLng, t.lat, t.lng); t.distance = d
WithDistance(t, userLat, userLng) ==
    [distance |-> getDistance(userLat, userLng, t.lat, t.lng)] @@ t

\* A filter callback that keeps every row whose distance is a number.
WithinAnyRadius(d, r) == IsNum(d)

\* return d <= r
WithinRadius(d, r) == LessEq(d, r)

\* temples.filter(t => { ...; t.distance = d; return d <= r })
FilterByRadius(rows, userLat, userLng, r) ==
    LET annotated ==
            [i \in 1..Len(rows) |-> WithDistance(rows[i], userLat, userLng)]
    IN  SelectSeq(annotated, LAMBDA t : WithinRadius(t.distance, r))

\* (a, b) => a.distance - b.distance; a NaN result counts as 0.
Compare(a, b) ==
    IF IsNum(a.distance) /\ IsNum(b.distance)
    THEN a.distance.v - b.distance.v
    ELSE 0

\* An unstable insertion: an element goes before the elements already
\* placed that compare equal to it.
RECURSIVE InsertBeforeEqual(_, _)
InsertBeforeEqual(sorted, t) ==
    IF sorted = <<>> THEN <<t>>
    ELSE IF Compare(sorted[Len(sorted)], t) < 0 THEN Append(sorted, t)
    ELSE Append(InsertBeforeEqual(SubSeq(sorted, 1, Len(sorted) - 1), t),
                sorted[Len(sorted)])

\* Array.prototype.sort is stable: an element goes after every element
\* already placed that does not compare greater than it.
RECURSIVE InsertSorted(_, _)
InsertSorted(sorted, t) ==
    IF sorted = <<>> THEN <<t>>
    ELSE IF Compare(sorted[Len(sorted)], t) <= 0 THEN Append(sorted, t)
    ELSE Append(InsertSorted(SubSeq(sorted, 1, Len(sorted) - 1), t),
                sorted[Len(sorted)])

RECURSIVE SortUpTo(_, _)
SortUpTo(rows, n) ==
    IF n = 0 THEN <<>> ELSE InsertSorted(SortUpTo(rows, n - 1), rows[n])

\* The handler without its sort.
sortOmitted(rows) == rows

sort(rows) == SortUpTo(rows, Len(rows))

\* The body express answers with when a handler throws: a page of HTML.
ErrorPage == Str("<!DOCTYPE html>")

\* The handler: the status and body of res.json(temples).  When type is an
\* array, type.split is not a function: the handler throws and express
\* answers 500.
GetTemplesResponse(table, q) ==
    LET selected == SelectTemples(table, q)
        userLat == parseFloat(q.lat)
        userLng == parseFloat(q.lng)
        r == parseFloat(Radius(q))
    IN  IF q.type.k = "array" THEN [status |-> 500, body |-> ErrorPage]
        ELSE [status |-> 200,
              body |-> IF HasReferencePoint(q)
                       THEN sort(FilterByRadius(selected, userLat, userLng, r))
                       ELSE selected]

(***************************************************************************)
(* Requests of the model: each parameter is given at most once.            *)
(***************************************************************************)
CityParams == {Undefined, Str(""), Str("pune"), Str("_")}

TypeParams == {Undefined, Str(""), Str("Jain"), Str("Hindu,Jain")}

LatParams ==
    {Undefined, Str(""), Str("18.5204"), Str("\t18.5204"), Str("0"),
     Str("91.5"), Str("abc")}

LngParams == {Undefined, Str("73.8567"), Str("0")}

RadiusParams ==
    {Undefined, Str(""), Str("10"), Str("0.1"), Str("Infinity"), Str("abc")}

Queries ==
    [city : CityParams, type : TypeParams, lat : LatParams, lng : LngParams,
     radius : RadiusParams]

RECURSIVE SeqsUpTo(_, _)
SeqsUpTo(S, n) ==
    IF n = 0 THEN {<<>>}
    ELSE LET shorter == SeqsUpTo(S, n - 1)
         IN  shorter \cup {Append(s, x) : s \in {t \in shorter : Len(t) = n - 1}, x \in S}

\* No request in flight, no response written yet.
None == [k |-> "none"]

(***************************************************************************)
(* The ChatDrawer component.  App renders it while isChatOpen is true.     *)
(* messages, input and isTyping are the state of the drawer on screen and  *)
(* `chat` is its /api/chat request: None, or the message sent and, once    *)
(* the server has answered, the response.  A drawer that is closed stays   *)
(* mounted, with its state and its handlers, until its exit animation has  *)
(* ended.  `discarded` holds the drawers unmounted while their request was *)
(* out: the rest of their handleSend still runs, on state that is never    *)
(* rendered again.                                                         *)
(***************************************************************************)
Greeting ==
    "Namaste! I am your Temple Finder Assistant. How can I help you today?"

ConnectionTrouble == "Sorry, I am having trouble connecting right now."

Message(role, text) == [role |-> role, text |-> text]

\* useState initial values of a drawer just mounted.
ChatOpened ==
    [messages |-> <<Message("ai", Str(Greeting))>>,
     input |-> "",
     isTyping |-> FALSE,
     chat |-> None]

\* No drawer on screen.
NoDrawer == [messages |-> <<>>, input |-> "", isTyping |-> FALSE, chat |-> None]

\* useState(false) of isChatOpen: the App starts without a drawer.
ChatClosed ==
    /\ isChatOpen = FALSE
    /\ messages = NoDrawer.messages
    /\ input = NoDrawer.input
    /\ isTyping = NoDrawer.isTyping
    /\ chat = NoDrawer.chat
    /\ discarded = <<>>

(***************************************************************************)
(* The App component (client).  `displayed` is its temples state; fetches  *)
(* is the list of the fetchTemples calls made so far, each with the query  *)
(* it sent and whether its promise is pending, fulfilled or rejected.      *)
(***************************************************************************)
\* useState initial values; no effect has run yet.
AppUnmounted ==
    /\ displayed = <<>>
    /\ searchQuery = ""
    /\ selectedTypes = <<>>
    /\ userLocation = Null
    /\ isLoading = FALSE
    /\ fetches = <<>>
    /\ geolocation = "unasked"

Init ==
    /\ \E stored \in SeqsUpTo(StoredRows, MaxStored) :
          temples = WithIds(Seed(stored))
    /\ request = None
    /\ response = None
    /\ points = None
    /\ measured = None
    /\ AppUnmounted
    /\ ChatClosed

\* A client sends GET /api/temples; express parses the query string into q.
Receive(q) ==
    /\ request = None
    /\ request' = q
    /\ response' = None
    /\ UNCHANGED <<temples, distanceVars, appVars, chatVars>>

\* app.get("/api/temples", ...): the handler runs to res.json(temples).
GetTemples ==
    /\ request # None
    /\ response = None
    /\ response' = GetTemplesResponse(temples, request)
    /\ UNCHANGED <<temples, request, distanceVars, appVars, chatVars>>

\* The response has gone out; the server is idle again.
Finish ==
    /\ response # None
    /\ request' = None
    /\ response' = None
    /\ UNCHANGED <<temples, distanceVars, appVars, chatVars>>

Next ==
    \/ \E q \in Queries : Receive(q)
    \/ GetTemples
    \/ Finish

Spec == Init /\ [][Next]_vars

(***************************************************************************)
(* getDistance on its own: two coordinates are drawn and measured.         *)
(***************************************************************************)
Point(lat, lng) == [lat |-> lat, lng |-> lng]

\* Equator, the default map centre's latitude and both poles; Greenwich,
\* the default map centre's longitude and both sides of the date line.
LatValues == {Num(0), Num(185204), Num(900000), Num(0 - 900000)}

LngValues == {Num(0), Num(738567), Num(1800000), Num(0 - 1800000)}

\* The grid points and one point 1e-200 degrees north of (0, 0).
Coordinates ==
    {Point(lat, lng) : lat \in LatValues, lng \in LngValues}
        \cup {Point(NumBelow(0, 1), Num(0))}

InitDistance ==
    /\ temples = WithIds(sampleTemples)
    /\ request = None
    /\ response = None
    /\ points = None
    /\ measured = None
    /\ AppUnmounted
    /\ ChatClosed

\* getDistance(a.lat, a.lng, b.lat, b.lng)
Measure(a, b) ==
    /\ points' = <<a, b>>
    /\ measured' = getDistance(a.lat, a.lng, b.lat, b.lng)
    /\ UNCHANGED <<serverVars, appVars, chatVars>>

NextDistance == \E a, b \in Coordinates : Measure(a, b)

SpecDistance == InitDistance /\ [][NextDistance]_vars

(***************************************************************************)
(* App: fetchTemples and the events that call it.                          *)
(***************************************************************************)
\* Largest number of fetchTemples calls in a run.
MaxFetches == 4

\* Texts typed into the search box, and the type buttons clicked.
SearchTexts == {"", "pune", "pune&type=Jain"}

ClickedTypes == {"Hindu", "Jain"}

\* The position the browser reports: the default map centre.
Positions == {<<Num(185204), Num(738567)>>}

\* Digits of the natural number n.
RECURSIVE NatToString(_)
NatToString(n) ==
    IF n < 10 THEN CharAt(Digits, n + 1)
    ELSE NatToString(n \div 10) \o CharAt(Digits, (n % 10) + 1)

\* Decimals of f / unit without trailing zeros (unit a power of ten).
RECURSIVE FracToString(_, _)
FracToString(f, unit) ==
    IF f = 0 THEN ""
    ELSE CharAt(Digits, (f * 10) \div unit + 1)
         \o FracToString((f * 10) % unit, unit)

\* `${x}` of a number: sign, integer part, and the decimals if any.
NumberToString(x) ==
    LET mag == IF x.v < 0 THEN 0 - x.v ELSE x.v
        frac == FracToString(mag % Scale, Scale)
    IN  (IF x.v < 0 THEN "-" ELSE "")
        \o NatToString(mag \div Scale)
        \o (IF frac = "" THEN "" ELSE "." \o frac)

(***************************************************************************)
(* From the url of fetchTemples to req.query.  The texts of the model are  *)
(* made of the printable ASCII characters, tab, line feed, form feed and   *)
(* carriage return, without [, ] and the grave accent, and their escapes   *)
(* %XX name such characters only.                                          *)
(***************************************************************************)
\* The printable ASCII characters in the order of their codes: 32 to 95,
\* and 97 to 126.
Ascii ==
    " !\"#$%&'()*+,-./0123456789:;<=>?@ABCDEFGHIJKLMNOPQRSTUVWXYZ[\\]^_"

AsciiLower == "abcdefghijklmnopqrstuvwxyz{|}~"

Controls == "\t\n\f\r"

ControlCodes == <<9, 10, 12, 13>>

\* Position of the character c in s, or 0.
Position(s, c) ==
    IF \E i \in 1..Len(s) : CharAt(s, i) = c
    THEN CHOOSE i \in 1..Len(s) : CharAt(s, i) = c
    ELSE 0

\* c.charCodeAt(0)
CharCode(c) ==
    IF Position(Ascii, c) > 0 THEN 31 + Position(Ascii, c)
    ELSE IF Position(AsciiLower, c) > 0 THEN 96 + Position(AsciiLower, c)
    ELSE ControlCodes[Position(Controls, c)]

\* The code is that of a character of the model.
HasChar(n) ==
    \/ n \in 32..95
    \/ n \in 97..126
    \/ \E i \in 1..Len(ControlCodes) : ControlCodes[i] = n

\* String.fromCharCode(n)
FromCharCode(n) ==
    IF n >= 97 THEN CharAt(AsciiLower, n - 96)
    ELSE IF n >= 32 THEN CharAt(Ascii, n - 31)
    ELSE CharAt(Controls, CHOOSE i \in 1..Len(ControlCodes) : ControlCodes[i] = n)

HexDigits == "0123456789ABCDEF"

HexLower == "0123456789abcdef"

IsHex(c) == \E i \in 1..Len(HexDigits) : c \in {CharAt(HexDigits, i), CharAt(HexLower, i)}

HexVal(c) ==
    (CHOOSE i \in 1..Len(HexDigits) :
        c \in {CharAt(HexDigits, i), CharAt(HexLower, i)}) - 1

ToHex(n) ==
    CharAt(HexDigits, (n \div 16) + 1) \o CharAt(HexDigits, (n % 16) + 1)

\* The url string fetchTemples(loc) builds from the state its closure sees.
Url(query, types, location, loc) ==
    LET place == IF loc # Null THEN loc ELSE location
    IN  "/api/temples?city=" \o query
        \o (IF Len(types) > 0 THEN "&type=" \o join(types, ",") ELSE "")
        \o (IF place # Null
            THEN "&lat=" \o NumberToString(place[1])
                 \o "&lng=" \o NumberToString(place[2])
            ELSE "")

\* The url parser of fetch drops every tab and newline of its input.
RECURSIVE RemoveTabsAndNewlines(_)
RemoveTabsAndNewlines(s) ==
    IF s = "" THEN ""
    ELSE (IF CharAt(s, 1) \in {"\t", "\n", "\r"} THEN "" ELSE CharAt(s, 1))
         \o RemoveTabsAndNewlines(Tail(s))

\* The fragment, from the first # on, is not sent.
WithoutFragment(s) ==
    LET j == IndexOf(s, "#", 1)
    IN  IF j = 0 THEN s ELSE SubSeq(s, 1, j - 1)

\* The characters the url parser escapes in the query of an http url.
InQueryEncodeSet(c) == c \in {" ", "\"", "<", ">", "'", "\f"}

RECURSIVE PercentEncode(_)
PercentEncode(s) ==
    IF s = "" THEN ""
    ELSE (IF InQueryEncodeSet(CharAt(s, 1))
          THEN "%" \o ToHex(CharCode(CharAt(s, 1)))
          ELSE CharAt(s, 1))
         \o PercentEncode(Tail(s))

\* fetch(url): the request target the browser sends.  Control characters
\* and spaces at both ends go first, then tabs and newlines, then the
\* fragment; what is left is escaped.
RequestTarget(url) ==
    PercentEncode(WithoutFragment(RemoveTabsAndNewlines(trim(url))))

\* The part of the target after the first question mark.
QueryString(target) ==
    LET j == IndexOf(target, "?", 1)
    IN  IF j = 0 THEN "" ELSE SubSeq(target, j + 1, Len(target))

RECURSIVE PlusToSpace(_)
PlusToSpace(s) ==
    IF s = "" THEN ""
    ELSE (IF CharAt(s, 1) = "+" THEN " " ELSE CharAt(s, 1))
         \o PlusToSpace(Tail(s))

\* Every % of s, from position i on, starts an escape %XX of a character.
RECURSIVE WellEscaped(_, _)
WellEscaped(s, i) ==
    IF i > Len(s) THEN TRUE
    ELSE IF CharAt(s, i) # "%" THEN WellEscaped(s, i + 1)
    ELSE /\ i + 2 <= Len(s)
         /\ IsHex(CharAt(s, i + 1)) /\ IsHex(CharAt(s, i + 2))
         /\ HasChar(16 * HexVal(CharAt(s, i + 1)) + HexVal(CharAt(s, i + 2)))
         /\ WellEscaped(s, i + 3)

\* decodeURIComponent of a well escaped string, from position i on.
RECURSIVE Unescape(_, _)
Unescape(s, i) ==
    IF i > Len(s) THEN ""
    ELSE IF CharAt(s, i) # "%" THEN CharAt(s, i) \o Unescape(s, i + 1)
    ELSE FromCharCode(16 * HexVal(CharAt(s, i + 1)) + HexVal(CharAt(s, i + 2)))
         \o Unescape(s, i + 3)

\* The decoder of the query parser: + is a space, then
\* decodeURIComponent; when that throws, the string stays as it is.
decode(s) ==
    LET strWithoutPlus == PlusToSpace(s)
    IN  IF WellEscaped(strWithoutPlus, 1) THEN Unescape(strWithoutPlus, 1)
        ELSE strWithoutPlus

\* The query parser: the string is cut at every &, each part at its first
\* =, and key and value are decoded; a part without = has the value ''.
ParseValues(str) ==
    LET parts == split(str, "&")
    IN  [i \in 1..Len(parts) |->
            LET pos == IndexOf(parts[i], "=", 1)
            IN  IF pos = 0
                THEN [key |-> decode(parts[i]), val |-> ""]
                ELSE [key |-> decode(SubSeq(parts[i], 1, pos - 1)),
                      val |-> decode(SubSeq(parts[i], pos + 1, Len(parts[i])))]]

\* req.query[name]: undefined, the value, or the array of the values when
\* the key comes more than once.
Param(pairs, name) ==
    LET found == SelectSeq(pairs, LAMBDA p : p.key = name)
        vals == [i \in 1..Len(found) |-> found[i].val]
    IN  IF Len(vals) = 0 THEN Undefined
        ELSE IF Len(vals) = 1 THEN Str(vals[1])
        ELSE Arr(vals)

\* const { city, type, lat, lng, radius } = req.query
ParseQuery(str) ==
    LET pairs == ParseValues(str)
    IN  [city |-> Param(pairs, "city"),
         type |-> Param(pairs, "type"),
         lat |-> Param(pairs, "lat"),
         lng |-> Param(pairs, "lng"),
         radius |-> Param(pairs, "radius")]

\* The query express hands the handler for the url fetchTemples(loc)
\* builds from the state its closure sees.
UrlQuery(query, types, location, loc) ==
    ParseQuery(QueryString(RequestTarget(Url(query, types, location, loc))))

\* fetchTemples up to its first await: setIsLoading(true), fetch(url).
\* `built` is the query as the state of the latest render would make it.
Fetching(list, sent, built) ==
    Append(list, [q |-> sent, built |-> built, status |-> "pending"])

\* prev.includes(type) ? prev.filter(t => t !== type) : [...prev, type]
Toggled(prev, type) ==
    IF \E i \in 1..Len(prev) : prev[i] = type
    THEN SelectSeq(prev, LAMBDA t : t # type)
    ELSE Append(prev, type)

InitApp ==
    /\ temples = WithIds(sampleTemples)
    /\ request = None
    /\ response = None
    /\ points = None
    /\ measured = None
    /\ AppUnmounted
    /\ ChatClosed

\* First render: useEffect(..., []) calls fetchTemples() and asks for the
\* position, then useEffect(..., [selectedTypes]) calls fetchTemples().
Mount ==
    /\ geolocation = "unasked"
    /\ Len(fetches) + 2 <= MaxFetches
    /\ LET q == UrlQuery(searchQuery, selectedTypes, userLocation, Null)
       IN  fetches' = Fetching(Fetching(fetches, q, q), q, q)
    /\ isLoading' = TRUE
    /\ geolocation' = "asked"
    /\ UNCHANGED <<displayed, searchQuery, selectedTypes, userLocation>>
    /\ UNCHANGED <<serverVars, distanceVars, chatVars>>

\* The success callback of getCurrentPosition.  It is the closure of the
\* first render: its fetchTemples sees searchQuery '' and selectedTypes [].
PositionFound(loc) ==
    /\ geolocation = "asked"
    /\ Len(fetches) < MaxFetches
    /\ userLocation' = loc
    /\ fetches' = Fetching(fetches, UrlQuery("", <<>>, Null, loc),
                           UrlQuery(searchQuery, selectedTypes, loc, loc))
    /\ isLoading' = TRUE
    /\ geolocation' = "found"
    /\ UNCHANGED <<displayed, searchQuery, selectedTypes>>
    /\ UNCHANGED <<serverVars, distanceVars, chatVars>>

\* The error callback: () => console.log("Location access denied").
PositionDenied ==
    /\ geolocation = "asked"
    /\ geolocation' = "denied"
    /\ UNCHANGED <<displayed, searchQuery, selectedTypes, userLocation,
                   isLoading, fetches>>
    /\ UNCHANGED <<serverVars, distanceVars, chatVars>>

\* onChange of the search box: setSearchQuery(e.target.value).
ChangeSearch(text) ==
    /\ geolocation # "unasked"
    /\ text # searchQuery
    /\ searchQuery' = text
    /\ UNCHANGED <<displayed, selectedTypes, userLocation, isLoading,
                   fetches, geolocation>>
    /\ UNCHANGED <<serverVars, distanceVars, chatVars>>

\* handleSearch: fetchTemples() of the latest render.
handleSearch ==
    /\ geolocation # "unasked"
    /\ Len(fetches) < MaxFetches
    /\ LET q == UrlQuery(searchQuery, selectedTypes, userLocation, Null)
       IN  fetches' = Fetching(fetches, q, q)
    /\ isLoading' = TRUE
    /\ UNCHANGED <<displayed, searchQuery, selectedTypes, userLocation,
                   geolocation>>
    /\ UNCHANGED <<serverVars, distanceVars, chatVars>>

\* toggleType, then the effect on [selectedTypes]: fetchTemples() of the
\* render that has the new selection.
toggleType(type) ==
    /\ geolocation # "unasked"
    /\ Len(fetches) < MaxFetches
    /\ selectedTypes' = Toggled(selectedTypes, type)
    /\ LET q == UrlQuery(searchQuery, selectedTypes', userLocation, Null)
       IN  fetches' = Fetching(fetches, q, q)
    /\ isLoading' = TRUE
    /\ UNCHANGED <<displayed, searchQuery, userLocation, geolocation>>
    /\ UNCHANGED <<serverVars, distanceVars, chatVars>>

\* The rest of fetchTemples for call i, the response being there and its
\* body being JSON: setTemples(await res.json()), then finally
\* setIsLoading(false).
FetchFulfilled(i) ==
    /\ fetches[i].status = "pending"
    /\ GetTemplesResponse(temples, fetches[i].q).status = 200
    /\ displayed' = GetTemplesResponse(temples, fetches[i].q).body
    /\ isLoading' = FALSE
    /\ fetches' = [fetches EXCEPT ![i].status = "fulfilled"]
    /\ UNCHANGED <<searchQuery, selectedTypes, userLocation, geolocation>>
    /\ UNCHANGED <<serverVars, distanceVars, chatVars>>

\* fetch threw, or res.json() did on a body that is not JSON:
\* console.error(err), finally setIsLoading(false).
FetchRejected(i) ==
    /\ fetches[i].status = "pending"
    /\ isLoading' = FALSE
    /\ fetches' = [fetches EXCEPT ![i].status = "rejected"]
    /\ UNCHANGED <<displayed, searchQuery, selectedTypes, userLocation,
                   geolocation>>
    /\ UNCHANGED <<serverVars, distanceVars, chatVars>>

NextApp ==
    \/ Mount
    \/ \E loc \in Positions : PositionFound(loc)
    \/ PositionDenied
    \/ \E text \in SearchTexts : ChangeSearch(text)
    \/ handleSearch
    \/ \E type \in ClickedTypes : toggleType(type)
    \/ \E i \in 1..Len(fetches) : FetchFulfilled(i)
    \/ \E i \in 1..Len(fetches) : FetchRejected(i)

SpecApp == InitApp /\ [][NextApp]_vars

(***************************************************************************)
(* ChatDrawer: handleSend and POST /api/chat.                              *)
(***************************************************************************)
\* Largest length of the message list.
MaxMessages == 5

\* Texts typed into the chat box, and texts the model answers with.
InputTexts == {"", " \t", "hi", " om "}

ReplyTexts == {"Open 6 AM to 9 PM"}

\* disabled={!input.trim() || isTyping} on the submit button.
SubmitDisabled == trim(input) = "" \/ isTyping

InitChat ==
    /\ temples = WithIds(sampleTemples)
    /\ request = None
    /\ response = None
    /\ points = None
    /\ measured = None
    /\ AppUnmounted
    /\ ChatClosed

\* Largest number of drawers closed with their request still out.
MaxDiscarded == 1

\* The drawer on screen (0) or a discarded one (its place in the list).
Drawers == 0..Len(discarded)

DrawerAt(i) ==
    IF i = 0
    THEN [messages |-> messages, input |-> input, isTyping |-> isTyping,
          chat |-> chat]
    ELSE discarded[i]

\* Drawer i takes the state d; every other drawer keeps its own.
SetDrawer(i, d) ==
    IF i = 0
    THEN /\ messages' = d.messages
         /\ input' = d.input
         /\ isTyping' = d.isTyping
         /\ chat' = d.chat
         /\ UNCHANGED discarded
    ELSE /\ discarded' = [discarded EXCEPT ![i] = d]
         /\ UNCHANGED <<messages, input, isTyping, chat>>

\* A ChatDrawer is mounted: shown, or leaving under AnimatePresence.
Mounted == messages # NoDrawer.messages

\* The chat button: setIsChatOpen(true).  A drawer that is still leaving
\* comes back as it is; otherwise a new ChatDrawer is mounted.
OpenChat ==
    /\ ~isChatOpen
    /\ isChatOpen' = TRUE
    /\ IF Mounted
       THEN UNCHANGED <<messages, input, isTyping, chat, discarded>>
       ELSE SetDrawer(0, ChatOpened)
    /\ UNCHANGED <<serverVars, distanceVars, appVars>>

\* The close button: onClose, setIsChatOpen(false).  The drawer starts its
\* exit animation and stays mounted.
CloseChat ==
    /\ isChatOpen
    /\ isChatOpen' = FALSE
    /\ UNCHANGED <<messages, input, isTyping, chat, discarded>>
    /\ UNCHANGED <<serverVars, distanceVars, appVars>>

\* The exit animation of the motion.div has ended: AnimatePresence
\* unmounts the drawer.  Its state is gone from the screen; if its request
\* is out, the rest of its handleSend is still to run.
ExitComplete ==
    /\ ~isChatOpen
    /\ Mounted
    /\ chat # None => Len(discarded) < MaxDiscarded
    /\ discarded' = IF chat # None THEN Append(discarded, DrawerAt(0))
                    ELSE discarded
    /\ messages' = NoDrawer.messages
    /\ input' = NoDrawer.input
    /\ isTyping' = NoDrawer.isTyping
    /\ chat' = NoDrawer.chat
    /\ UNCHANGED isChatOpen
    /\ UNCHANGED <<serverVars, distanceVars, appVars>>

\* onChange of the chat box: setInput(e.target.value).
ChangeInput(text) ==
    /\ Mounted
    /\ text # input
    /\ input' = text
    /\ UNCHANGED <<messages, isTyping, chat, isChatOpen, discarded>>
    /\ UNCHANGED <<serverVars, distanceVars, appVars>>

\* handleSend up to its await: nothing for a blank input; otherwise the
\* input is cleared, the user's message appended, isTyping set and the
\* request sent.
handleSend ==
    /\ Mounted
    /\ ~SubmitDisabled
    /\ Len(messages) + 2 <= MaxMessages
    /\ IF trim(input) = ""
       THEN UNCHANGED <<messages, input, isTyping, chat>>
       ELSE /\ input' = ""
            /\ messages' = Append(messages, Message("user", Str(input)))
            /\ isTyping' = TRUE
            /\ chat' = [message |-> input, response |-> None]
    /\ UNCHANGED <<isChatOpen, discarded>>
    /\ UNCHANGED <<serverVars, distanceVars, appVars>>

\* POST /api/chat for the request of drawer i, generateContent resolved:
\* res.json({ text: response.text }).
PostChatAnswered(i, text) ==
    LET d == DrawerAt(i)
    IN  /\ d.chat # None
        /\ d.chat.response = None
        /\ SetDrawer(i, [d EXCEPT !.chat.response =
                                      [status |-> 200, text |-> Str(text)]])
        /\ UNCHANGED isChatOpen
        /\ UNCHANGED <<serverVars, distanceVars, appVars>>

\* POST /api/chat, generateContent threw:
\* res.status(500).json({ error: "AI service error" }), a body without text.
PostChatFailed(i) ==
    LET d == DrawerAt(i)
    IN  /\ d.chat # None
        /\ d.chat.response = None
        /\ SetDrawer(i, [d EXCEPT !.chat.response =
                                      [status |-> 500, text |-> Undefined]])
        /\ UNCHANGED isChatOpen
        /\ UNCHANGED <<serverVars, distanceVars, appVars>>

\* The rest of handleSend in drawer i, the response being there: data =
\* await res.json(), the message { role: 'ai', text: data.text } appended,
\* and finally setIsTyping(false).
ChatFulfilled(i) ==
    LET d == DrawerAt(i)
    IN  /\ d.chat # None
        /\ d.chat.response # None
        /\ SetDrawer(i, [d EXCEPT
               !.messages = Append(@, Message("ai", d.chat.response.text)),
               !.isTyping = FALSE,
               !.chat = None])
        /\ UNCHANGED isChatOpen
        /\ UNCHANGED <<serverVars, distanceVars, appVars>>

\* fetch rejected (no connection): the catch block appends the fixed
\* message, and finally setIsTyping(false).
ChatRejected(i) ==
    LET d == DrawerAt(i)
    IN  /\ d.chat # None
        /\ d.chat.response = None
        /\ SetDrawer(i, [d EXCEPT
               !.messages = Append(@, Message("ai", Str(ConnectionTrouble))),
               !.isTyping = FALSE,
               !.chat = None])
        /\ UNCHANGED isChatOpen
        /\ UNCHANGED <<serverVars, distanceVars, appVars>>

NextChat ==
    \/ OpenChat
    \/ CloseChat
    \/ ExitComplete
    \/ \E text \in InputTexts : ChangeInput(text)
    \/ handleSend
    \/ \E i \in Drawers, text \in ReplyTexts : PostChatAnswered(i, text)
    \/ \E i \in Drawers : PostChatFailed(i)
    \/ \E i \in Drawers : ChatFulfilled(i)
    \/ \E i \in Drawers : ChatRejected(i)

SpecChat == InitChat /\ [][NextChat]_vars

(***************************************************************************)
(* Properties of GET /api/temples.                                         *)
(***************************************************************************)
Responded == response # None

Body == response.body

\* The request supplies lat and lng (both present and not empty).
SuppliesReferencePoint(q) ==
    /\ q.lat # Undefined /\ q.lat # Str("")
    /\ q.lng # Undefined /\ q.lng # Str("")

Ranked == Responded /\ SuppliesReferencePoint(request)

HasDistance(e) == "distance" \in DOMAIN e

\* The supplied radius read as a number, or the default of 10 km.
EffectiveRadius(q) ==
    IF q.radius = Undefined THEN Num(10 * Scale) ELSE parseFloat(q.radius)

\* C1: with a reference point supplied, every entry of the response carries
\* a distance, and that distance is at most the effective radius.
C1_WithinRadius ==
    Ranked =>
        \A i \in 1..Len(Body) :
            /\ HasDistance(Body[i])
            /\ LessEq(Body[i].distance, EffectiveRadius(request))

\* A ranked response that returned some selected rows and dropped others.
C1_Witness ==
    /\ Ranked
    /\ Len(Body) > 0
    /\ Len(Body) < Len(SelectTemples(temples, request))

\* C2: with a reference point supplied, the response is in non-decreasing
\* order of distance.
C2_SortedByDistance ==
    Ranked =>
        \A i \in 1..(Len(Body) - 1) :
            /\ IsNum(Body[i].distance) /\ IsNum(Body[i + 1].distance)
            /\ Body[i].distance.v <= Body[i + 1].distance.v

\* A ranked response whose order differs from the table's: the sort moved
\* a later row in front of an earlier one, at a strictly smaller distance.
C2_Witness ==
    /\ Ranked
    /\ \E i \in 1..(Len(Body) - 1) :
          /\ Body[i].id > Body[i + 1].id
          /\ Body[i].distance.v < Body[i + 1].distance.v

\* A row has usable coordinates when lat and lng are numbers, neither
\* NULL nor text.
HasCoordinates(t) == IsNum(t.lat) /\ IsNum(t.lng)

\* C3: in a search with a reference point, a row whose lat or lng is NULL
\* or not a number
\* is never in the response, the call succeeds, and every selected row with
\* coordinates within the radius is in the response.
C3_NullCoordinatesExcluded ==
    Ranked =>
        /\ response.status = 200
        /\ \A i \in 1..Len(Body) : HasCoordinates(Body[i])
        /\ \A t \in {temples[i] : i \in 1..Len(temples)} :
              ( /\ Selected(t, request)
                /\ HasCoordinates(t)
                /\ LessEq(getDistance(parseFloat(request.lat),
                                      parseFloat(request.lng), t.lat, t.lng),
                          EffectiveRadius(request)) )
              => \E i \in 1..Len(Body) : Body[i].id = t.id

\* The reference point read as numbers lies outside the valid ranges.
OutOfRange(q) ==
    LET lat == parseFloat(q.lat)
        lng == parseFloat(q.lng)
    IN  \/ /\ IsNum(lat) /\ IsNum(lng)
           /\ \/ lat.v < 0 - 90 * Scale \/ lat.v > 90 * Scale
              \/ lng.v < 0 - 180 * Scale \/ lng.v > 180 * Scale
        \/ IsInfinity(lat) /\ lng # NaN
        \/ IsInfinity(lng) /\ lat # NaN

\* C4: a search whose reference point is out of range is rejected before
\* ranking: it never yields a ranked result list.
C4_InvalidCoordinateRejected ==
    (Ranked /\ OutOfRange(request)) =>
        ~(response.status = 200 /\ \E i \in 1..Len(Body) : HasDistance(Body[i]))

\* C5: without a reference point the response is the rows passing the city
\* and category filter, in table order, none carrying a distance, and it is
\* the same for every value of radius.
C5_UnrankedIgnoresRadius ==
    (Responded /\ ~SuppliesReferencePoint(request)) =>
        /\ Body = SelectTemples(temples, request)
        /\ \A i \in 1..Len(Body) : ~HasDistance(Body[i])
        /\ \A i \in 1..(Len(Body) - 1) : Body[i].id < Body[i + 1].id
        /\ \A r \in RadiusParams :
              GetTemplesResponse(temples, [request EXCEPT !.radius = r]).body
                  = Body

\* An unranked response to a request that carried a radius and only half of
\* a reference point, over a table the filter cuts down.
C5_Witness ==
    /\ Responded
    /\ request.lat # Undefined /\ request.lat # Str("")
    /\ request.lng = Undefined
    /\ request.radius = Str("0.1")
    /\ Len(Body) > 0
    /\ Len(Body) < Len(temples)

\* C6: with a reference point and no radius, the response is that of the
\* same request with radius 10.
C6_DefaultRadiusTen ==
    (Ranked /\ request.radius = Undefined) =>
        Body = GetTemplesResponse(temples,
                                  [request EXCEPT !.radius = Str("10")]).body

\* A ranked response under the default radius that kept a row farther than
\* 5 km and dropped a row farther than 10 km.
C6_Witness ==
    /\ Ranked
    /\ request.radius = Undefined
    /\ \E i \in 1..Len(Body) : Body[i].distance.v > 5 * Scale
    /\ Len(Body) < Len(SelectTemples(temples, request))

\* s contains p as a literal substring, up to ASCII case.
ContainsIgnoringCase(s, p) ==
    \E i \in 1..(Len(s) - Len(p) + 1) :
        \A j \in 1..Len(p) :
            FoldChar(CharAt(s, i + j - 1)) = FoldChar(CharAt(p, j))

\* The row is one of the entries of the response.
Returned(t) == \E i \in 1..Len(Body) : Body[i].id = t.id

Rows == {temples[i] : i \in 1..Len(temples)}

\* C7: with a city pattern set, a row is kept exactly when its city contains
\* the pattern literally, up to case; an empty or omitted pattern keeps
\* every row.
C7_CityLiteralSubstring ==
    (Responded /\ ~SuppliesReferencePoint(request) /\ ~Truthy(request.type)) =>
        \A t \in Rows :
            Returned(t) <=>
                \/ request.city = Undefined
                \/ request.city = Str("")
                \/ /\ t.city # Null
                   /\ ContainsIgnoringCase(t.city.s, request.city.s)

\* The category set a request asks for.
RequestedCategories(q) ==
    CASE q.type = Str("Jain") -> {"Jain"}
      [] q.type = Str("Hindu,Jain") -> {"Hindu", "Jain"}
      [] OTHER -> {}

\* C8: with a non-empty category set, a row passes the filter exactly when
\* its type is in the set; with an absent or empty set, its type plays no
\* part.
C8_CategoryMembership ==
    (Responded /\ ~SuppliesReferencePoint(request)) =>
        \A t \in Rows :
            Returned(t) <=>
                /\ Truthy(request.city) =>
                      Like(t.city, "%" \o request.city.s \o "%")
                /\ \/ RequestedCategories(request) = {}
                   \/ t.type \in RequestedCategories(request)

\* A response to a request for two categories that kept rows of both and
\* dropped a row of a third.
C8_Witness ==
    /\ Responded
    /\ ~SuppliesReferencePoint(request)
    /\ request.type = Str("Hindu,Jain")
    /\ \E i, j \in 1..Len(Body) :
          Body[i].type = "Hindu" /\ Body[j].type = "Jain"
    /\ Len(Body) < Len(temples)

\* C9: two returned entries at the same distance keep the relative order
\* they had in the table.
C9_StableSort ==
    Ranked =>
        \A i, j \in 1..Len(Body) :
            (i < j /\ Body[i].distance = Body[j].distance)
                => Body[i].id < Body[j].id

\* A ranked response with two entries at the same distance.
C9_Witness ==
    /\ Ranked
    /\ \E i, j \in 1..Len(Body) :
          i < j /\ Body[i].distance = Body[j].distance

\* C10: a ranked search whose radius is not a number is answered with a
\* validation error, not with a normal result list.
C10_BadRadiusRejected ==
    ( /\ Ranked
      /\ request.radius # Undefined
      /\ parseFloat(request.radius) = NaN )
    => response.status # 200


(***************************************************************************)
(* Properties of getDistance.                                              *)
(***************************************************************************)
Measured == measured # None

\* C11: the distance is zero exactly when the two coordinates are equal.
C11_ZeroIffEqual ==
    Measured => ((measured = Num(0)) <=> (points[1] = points[2]))

\* C12: the distance from a to b is the distance from b to a.
C12_Symmetric ==
    Measured =>
        measured = getDistance(points[2].lat, points[2].lng,
                               points[1].lat, points[1].lng)

\* Two coordinates on different latitudes and longitudes, neither at a
\* pole, have been measured.
C12_Witness ==
    /\ Measured
    /\ points[1].lat # points[2].lat
    /\ points[1].lng # points[2].lng
    /\ points[1].lat.v < 900000 /\ points[2].lat.v < 900000
    /\ points[1].lat.v > 0 /\ points[2].lat.v >= 0
    /\ measured.v > 0


(***************************************************************************)
(* Properties of the App component.                                        *)
(***************************************************************************)
InFlight == {i \in 1..Len(fetches) : fetches[i].status = "pending"}

\* C13: once no request is in flight, the list on display is the response
\* to the latest request, and that request was built from the search text,
\* the selected types and the location of the time it was made.
C13_LatestResponseDisplayed ==
    ( /\ Len(fetches) > 0
      /\ InFlight = {}
      /\ fetches[Len(fetches)].status = "fulfilled" )
    => LET latest == GetTemplesResponse(temples, fetches[Len(fetches)].built)
       IN  latest.status = 200 /\ displayed = latest.body

\* C14: isLoading is true exactly while some request is in flight.
C14_LoadingWhileInFlight ==
    isLoading <=> (InFlight # {})


(***************************************************************************)
(* Properties of the ChatDrawer.                                           *)
(***************************************************************************)
IsAnswer(m) ==
    /\ m.role = "ai"
    /\ \/ m.text = Str(ConnectionTrouble)
       \/ \E text \in ReplyTexts : m.text = Str(text)

\* C15: in the mounted drawer a submission appends one user message and
\* sets isTyping; when the request has settled, one assistant message, the
\* reply or the fixed connection-trouble message, stands right after it
\* and isTyping is false.
C15_OneAnswerPerSubmission ==
    Mounted =>
        /\ isTyping <=> (chat # None)
        /\ isTyping <=> (Len(messages) % 2 = 0)
        /\ \A i \in 2..Len(messages) :
              IF i % 2 = 0
              THEN /\ messages[i].role = "user"
                   /\ trim(messages[i].text.s) # ""
              ELSE IsAnswer(messages[i])

\* The shape of the exchange alone: in every drawer user and assistant
\* messages alternate and isTyping is true exactly while the request is
\* out.
ChatAlternates ==
    \A d \in {DrawerAt(i) : i \in Drawers} :
        (d # NoDrawer) =>
            /\ d.isTyping <=> (d.chat # None)
            /\ d.isTyping <=> (Len(d.messages) % 2 = 0)
            /\ \A i \in 2..Len(d.messages) :
                  IF i % 2 = 0 THEN d.messages[i].role = "user"
                               ELSE d.messages[i].role = "ai"

\* The drawer was unmounted with a request out and a new one opened: the
\* screen shows the greeting alone, and the answer to that request, when it
\* comes, goes to the discarded drawer.
ChatAnswerLost ==
    /\ isChatOpen
    /\ Len(messages) = 1
    /\ \E i \in 1..Len(discarded) :
          /\ discarded[i].chat = None
          /\ Len(discarded[i].messages) = 3

=============================================================================
